---- MODULE Spec2Model ----
(***************************************************************************)
(* A model of sounding-bufkit: the section split of a BUFKIT text, the     *)
(* surface header and row decoders, the surface and upper-air iterators    *)
(* and the time-synchronised merge of SoundingIterator.                    *)
(*                                                                         *)
(* The module holds several specifications over one set of variables; the  *)
(* variables a specification does not use stay at their idle values:       *)
(*   SpecMerge    SoundingIterator::next and BufkitData::validate over     *)
(*                streams of upper-air and surface chunks                  *)
(*   SpecSurface  SurfaceSection::new and SurfaceIterator::next over the   *)
(*                characters of surface texts with varied rows and varied  *)
(*                headers                                                  *)
(*   SpecInit     BufkitData::init over file texts put together from       *)
(*                pieces with and without the section marker               *)
(*   SpecProfile  Profile::parse and UpperAir::validate over the           *)
(*                characters of profile blocks                             *)
(*   SpecScalar   one raw value decoded by a surface column, a profile     *)
(*                column and a key of a key-value block                    *)
(*   SpecCombine  SoundingIterator::next over chunks that carry station    *)
(*                numbers                                                  *)
(*   SpecTwins    several SurfaceIterators built from one SurfaceSection   *)
(*   SpecHeader   one header line read by SurfaceData::parse_columns and   *)
(*                by Profile::parse                                        *)
(*   SpecStation  StationInfo::parse over preambles with keys left out or  *)
(*                holding the sentinel                                     *)
(*   SpecIndexes  Indexes::parse over blocks with odd keys                 *)
(*   SpecDateTime parse_naive_date_time over tokens of varied shape        *)
(*   SpecRow      SurfaceData::parse_values over one chunk                 *)
(*   SpecTokens   find_next_n_tokens over texts of a few tokens            *)
(*   SpecChunks   repeated get_next_chunk over the same texts              *)
(*   SpecBlank    find_blank_line over short texts                         *)
(*   SpecWx       the WxSymbolCode entry combine_data derives from a       *)
(*                surface record                                           *)
(***************************************************************************)
EXTENDS Integers, Sequences, FiniteSets, TLC

VARIABLES
    \* ---- merge: the two sections of one BufkitData and one SoundingIterator
    uaChunks,       \* upper-air block: the per-record chunks, in text order
    sdChunks,       \* surface block: the N-token chunks, in text order
    sdTail,         \* what follows the last chunk, as find_next_n_tokens takes
                    \* it: "clean" (Ok(None)) | "partial" (Err)
    uaPos,          \* UpperAirIterator: index of the next chunk to read
    uaAborted,      \* UpperAirIterator: a chunk failed to decode
    sdPos,          \* SurfaceIterator: index of the next chunk to read
    out,            \* the merged records SoundingIterator has returned
    lastResult,     \* what the latest next() returned: "init" | "Some" | "None"
    lastPull,       \* which pull ended the latest next(): "none" | "ua" | "sd"
    calls,          \* number of next() calls made
    validateResult, \* what BufkitData::validate returned: "none" | "Ok" | "Err"
    \* ---- surface: one SurfaceSection built from a text and one SurfaceIterator
    sfcText,        \* the text handed to SurfaceSection::new, a sequence of characters
    sfcHeader,      \* the header tokens the text was written with
    sfcRows,        \* the rows the text was written with, each with what it says
    section,        \* the result of SurfaceSection::new: status, raw_text, columns
    remaining,      \* SurfaceIterator::remaining
    iterState,      \* "none" | "live" | "panicked"
    yielded,        \* the records SurfaceIterator::next has returned
    sfcResult,      \* its latest result: "init" | "Some" | "None" | "Err" | "Panic"
    sfcCalls,       \* number of SurfaceIterator::next calls made
    \* ---- init: one call of BufkitData::init on a file text
    fileText,       \* the text of the file, a sequence of characters
    initResult,     \* the result of BufkitData::init and the blocks it cut
    \* ---- profile: one profile block decoded into the arrays of an UpperAir
    profHeader,     \* the header tokens the block was written with
    profValues,     \* the body values the block was written with
    profText,       \* the block handed to Profile::parse
    profile,        \* the result of Profile::parse: kind and arrays
    uaValid,        \* what UpperAir::validate returned: "none" | "Ok" | "Err"
    \* ---- call: one call of a decoder that keeps no state between calls
    call,           \* the function called and its arguments
    result,         \* what it returned; [kind |-> "pending"] before the call
    \* ---- twins: the iterators built from the one SurfaceSection of the surface group
    iterators       \* one record per iterator: remaining, yielded, state

mergeVars == <<uaChunks, sdChunks, sdTail, uaPos, uaAborted, sdPos, out,
               lastResult, lastPull, calls, validateResult>>

sfcVars == <<sfcText, sfcHeader, sfcRows, section, remaining, iterState, yielded, sfcResult,
             sfcCalls>>

initVars == <<fileText, initResult>>

profVars == <<profHeader, profValues, profText, profile, uaValid>>

callVars == <<call, result>>

twinVars == <<iterators>>

vars == <<mergeVars, sfcVars, initVars, profVars, callVars, twinVars>>

\* What the operations of one group leave alone.
notMerge == <<sfcVars, initVars, profVars, callVars, twinVars>>
notSurface == <<mergeVars, initVars, profVars, callVars, twinVars>>
notInit == <<mergeVars, sfcVars, profVars, callVars, twinVars>>
notProfile == <<mergeVars, sfcVars, initVars, callVars, twinVars>>
notCall == <<mergeVars, sfcVars, initVars, profVars, twinVars>>
notTwins == <<mergeVars, initVars, profVars, callVars>>

\* The values of the variables of a group no operation has touched.
IdleMerge ==
    /\ uaChunks = <<>>
    /\ sdChunks = <<>>
    /\ sdTail = "clean"
    /\ uaPos = 1
    /\ uaAborted = FALSE
    /\ sdPos = 1
    /\ out = <<>>
    /\ lastResult = "init"
    /\ lastPull = "none"
    /\ calls = 0
    /\ validateResult = "none"

IdleSurface ==
    /\ sfcText = <<>>
    /\ sfcHeader = <<>>
    /\ sfcRows = <<>>
    /\ section = [status |-> "none"]
    /\ remaining = <<>>
    /\ iterState = "none"
    /\ yielded = <<>>
    /\ sfcResult = "init"
    /\ sfcCalls = 0

IdleInit ==
    /\ fileText = <<>>
    /\ initResult = [status |-> "none"]

IdleProfile ==
    /\ profHeader = <<>>
    /\ profValues = <<>>
    /\ profText = <<>>
    /\ profile = [kind |-> "none"]
    /\ uaValid = "none"

IdleCall ==
    /\ call = [fn |-> "none"]
    /\ result = [kind |-> "none"]

IdleTwins == iterators = <<>>

----------------------------------------------------------------------------
(* Bounds *)

MaxUa == 3          \* upper-air chunks in a text
MaxSd == 3          \* surface chunks in a text

\* The valid times of the records of a text.
Times == {1, 2, 3}

----------------------------------------------------------------------------
(* Helpers *)

RECURSIVE SeqsUpTo(_, _)
SeqsUpTo(S, n) ==
    IF n = 0 THEN {<<>>}
    ELSE LET shorter == SeqsUpTo(S, n - 1)
         IN  shorter \cup {Append(s, x) : s \in {t \in shorter : Len(t) = n - 1}, x \in S}

Range(s) == {s[i] : i \in DOMAIN s}

StrictlyIncreasing(s) == \A i \in 1..(Len(s) - 1) : s[i] < s[i + 1]

----------------------------------------------------------------------------
(* Merge: chunks and section iterators *)

\* The station number of the texts of a file of one station.
StationNum == 727730

\* A chunk of either section, seen through its decoder: ok says whether the
\* chunk decodes (UpperAir::parse + validate, SurfaceData::parse_values), time
\* is the valid time of the decoded record and num its station number.
Chunks ==
    {[ok |-> TRUE, time |-> t, num |-> StationNum] : t \in Times}
    \cup {[ok |-> FALSE, time |-> 0, num |-> 0]}

\* UpperAirIterator::next: decode the next chunk; a chunk that fails to decode
\* ends the iteration for good.
UpperAirIterator_next(pos, aborted) ==
    IF aborted \/ pos > Len(uaChunks)
    THEN [some |-> FALSE, idx |-> 0, pos |-> pos, aborted |-> aborted]
    ELSE IF ~uaChunks[pos].ok
         THEN [some |-> FALSE, idx |-> 0, pos |-> pos + 1, aborted |-> TRUE]
         ELSE [some |-> TRUE, idx |-> pos, pos |-> pos + 1, aborted |-> aborted]

\* UpperAirSection::validate_section: every chunk must decode.
UpperAirSection_validate_section == \A i \in DOMAIN uaChunks : uaChunks[i].ok

\* Mutant of SurfaceIterator_next_chunks: a chunk that does not decode ends the call
\* with None instead of being skipped.
SurfaceIterator_next_chunks_StopsAtBadChunk(pos) ==
    IF pos > Len(sdChunks)
    THEN [some |-> FALSE, idx |-> 0, pos |-> pos]
    ELSE IF sdChunks[pos].ok
         THEN [some |-> TRUE, idx |-> pos, pos |-> pos + 1]
         ELSE [some |-> FALSE, idx |-> 0, pos |-> pos + 1]

\* SurfaceIterator::next over the chunks get_next_chunk cuts: a chunk that does
\* not decode is skipped; Ok(None) and Err(token count) both end the loop.
RECURSIVE SurfaceIterator_next_chunks(_)
SurfaceIterator_next_chunks(pos) ==
    IF pos > Len(sdChunks)
    THEN [some |-> FALSE, idx |-> 0, pos |-> pos]
    ELSE IF sdChunks[pos].ok
         THEN [some |-> TRUE, idx |-> pos, pos |-> pos + 1]
         ELSE SurfaceIterator_next_chunks(pos + 1)

\* Mutant of SurfaceSection_validate_section_chunks: validation through the iterator,
\* which absorbs every row error.
SurfaceSection_validate_section_chunks_ViaIterator(pos) == TRUE

\* SurfaceSection::validate_section: get_next_chunk()? and parse_values()? on
\* every chunk, so a partial trailing group and a chunk that does not decode
\* are both errors.
RECURSIVE SurfaceSection_validate_section_chunks(_)
SurfaceSection_validate_section_chunks(pos) ==
    IF pos > Len(sdChunks)
    THEN sdTail = "clean"
    ELSE sdChunks[pos].ok /\ SurfaceSection_validate_section_chunks(pos + 1)

\* Mutant of BufkitData_validate: the upper-air result is dropped.
BufkitData_validate_IgnoresUpperAir ==
    IF ~SurfaceSection_validate_section_chunks(1) THEN "Err" ELSE "Ok"

\* BufkitData::validate
BufkitData_validate ==
    IF ~UpperAirSection_validate_section THEN "Err"
    ELSE IF ~SurfaceSection_validate_section_chunks(1) THEN "Err"
    ELSE "Ok"

----------------------------------------------------------------------------
(* Merge: SoundingIterator::next *)

\* The iterator state threaded through one call of next().
ItState(up, ua, sp) == [uaPos |-> up, uaAborted |-> ua, sdPos |-> sp]

NoneResult(st, who) == [some |-> FALSE, ua |-> 0, sd |-> 0, st |-> st, pull |-> who]

\* Mutant of WhileSd: <= in place of <, so a surface record of the same valid
\* time is passed over.
RECURSIVE WhileSd_SkipsEqual(_, _, _)
WhileSd_SkipsEqual(ua, sd, st) ==
    IF sdChunks[sd].time <= uaChunks[ua].time
    THEN LET r == SurfaceIterator_next_chunks(st.sdPos)
             st2 == [st EXCEPT !.sdPos = r.pos]
         IN  IF r.some THEN WhileSd_SkipsEqual(ua, r.idx, st2)
             ELSE [ok |-> FALSE, cur |-> sd, st |-> st2]
    ELSE [ok |-> TRUE, cur |-> sd, st |-> st]

\* while next_sd.valid_time < next_ua.valid_time { next_sd = surface_it.next()? }
RECURSIVE WhileSd(_, _, _)
WhileSd(ua, sd, st) ==
    IF sdChunks[sd].time < uaChunks[ua].time
    THEN LET r == SurfaceIterator_next_chunks(st.sdPos)
             st2 == [st EXCEPT !.sdPos = r.pos]
         IN  IF r.some THEN WhileSd(ua, r.idx, st2)
             ELSE [ok |-> FALSE, cur |-> sd, st |-> st2]
    ELSE [ok |-> TRUE, cur |-> sd, st |-> st]

\* WhileUa with <= in place of <: an upper-air record of the same valid time
\* is passed over.
RECURSIVE WhileUa_SkipsEqual(_, _, _)
WhileUa_SkipsEqual(ua, sd, st) ==
    IF uaChunks[ua].time <= sdChunks[sd].time
    THEN LET r == UpperAirIterator_next(st.uaPos, st.uaAborted)
             st2 == [st EXCEPT !.uaPos = r.pos, !.uaAborted = r.aborted]
         IN  IF r.some THEN WhileUa_SkipsEqual(r.idx, sd, st2)
             ELSE [ok |-> FALSE, cur |-> ua, st |-> st2]
    ELSE [ok |-> TRUE, cur |-> ua, st |-> st]

\* while next_ua.valid_time < next_sd.valid_time { next_ua = upper_air_it.next()? }
RECURSIVE WhileUa(_, _, _)
WhileUa(ua, sd, st) ==
    IF uaChunks[ua].time < sdChunks[sd].time
    THEN LET r == UpperAirIterator_next(st.uaPos, st.uaAborted)
             st2 == [st EXCEPT !.uaPos = r.pos, !.uaAborted = r.aborted]
         IN  IF r.some THEN WhileUa(r.idx, sd, st2)
             ELSE [ok |-> FALSE, cur |-> ua, st |-> st2]
    ELSE [ok |-> TRUE, cur |-> ua, st |-> st]

\* loop { while ..; while ..; if next_ua.valid_time == next_sd.valid_time { return Some } }
RECURSIVE MergeLoop(_, _, _)
MergeLoop(ua, sd, st) ==
    LET a == WhileSd(ua, sd, st)
    IN  IF ~a.ok THEN NoneResult(a.st, "sd")
        ELSE LET b == WhileUa(ua, a.cur, a.st)
             IN  IF ~b.ok THEN NoneResult(b.st, "ua")
                 ELSE IF uaChunks[b.cur].time = sdChunks[a.cur].time
                      THEN [some |-> TRUE, ua |-> b.cur, sd |-> a.cur, st |-> b.st,
                            pull |-> "none"]
                      ELSE MergeLoop(b.cur, a.cur, b.st)

\* The body of SoundingIterator::next from the iterator state st.
SoundingIterator_next(st) ==
    LET u == UpperAirIterator_next(st.uaPos, st.uaAborted)
        st1 == [st EXCEPT !.uaPos = u.pos, !.uaAborted = u.aborted]
    IN  IF ~u.some THEN NoneResult(st1, "ua")
        ELSE LET s == SurfaceIterator_next_chunks(st1.sdPos)
                 st2 == [st1 EXCEPT !.sdPos = s.pos]
             IN  IF ~s.some THEN NoneResult(st2, "sd")
                 ELSE MergeLoop(u.idx, s.idx, st2)

\* Missing or no-data value of the integers of Bufkit files.
MISSING_I32 == -9999

\* check_missing_i32: the sentinel becomes None, any other value Some(value).
check_missing_i32(val) ==
    IF val = MISSING_I32 THEN [some |-> FALSE] ELSE [some |-> TRUE, val |-> val]

\* combine_data with the station number of the surface record.
combine_data_StationOfSurface(ua, sd) ==
    [time |-> uaChunks[ua].time, station |-> check_missing_i32(sdChunks[sd].num),
     ua |-> ua, sd |-> sd]

\* combine_data: the merged record carries the valid time and the station
\* number of the upper-air record; of the surface record it takes the
\* observations only.
combine_data(ua, sd) ==
    [time |-> uaChunks[ua].time, station |-> check_missing_i32(uaChunks[ua].num),
     ua |-> ua, sd |-> sd]

----------------------------------------------------------------------------
(* Merge: the state machine *)

InitMerge ==
    /\ IdleSurface
    /\ IdleInit
    /\ IdleProfile
    /\ IdleCall
    /\ IdleTwins
    /\ uaChunks \in SeqsUpTo(Chunks, MaxUa)
    /\ sdChunks \in SeqsUpTo(Chunks, MaxSd)
    /\ sdTail \in {"clean", "partial"}
    /\ uaPos = 1
    /\ uaAborted = FALSE
    /\ sdPos = 1
    /\ out = <<>>
    /\ lastResult = "init"
    /\ lastPull = "none"
    /\ calls = 0
    /\ validateResult = "none"

\* One call of SoundingIterator::next.
Next_call ==
    /\ calls < Len(uaChunks) + 2
    /\ LET r == SoundingIterator_next(ItState(uaPos, uaAborted, sdPos))
       IN  /\ uaPos' = r.st.uaPos
           /\ uaAborted' = r.st.uaAborted
           /\ sdPos' = r.st.sdPos
           /\ out' = IF r.some THEN Append(out, combine_data(r.ua, r.sd)) ELSE out
           /\ lastResult' = IF r.some THEN "Some" ELSE "None"
           /\ lastPull' = r.pull
    /\ calls' = calls + 1
    /\ UNCHANGED <<uaChunks, sdChunks, sdTail, validateResult>>
    /\ UNCHANGED notMerge

\* One call of BufkitData::validate; it builds its own iterators.
Validate_call ==
    /\ validateResult = "none"
    /\ validateResult' = BufkitData_validate
    /\ UNCHANGED <<uaChunks, sdChunks, sdTail, uaPos, uaAborted, sdPos, out,
                   lastResult, lastPull, calls>>
    /\ UNCHANGED notMerge

NextMerge == Next_call \/ Validate_call

SpecMerge == InitMerge /\ [][NextMerge]_vars

----------------------------------------------------------------------------
(* Merge: the record streams the two iterators yield *)

\* The chunks UpperAirIterator yields when drained: those before the first
\* chunk that fails to decode.
UaYield == {i \in DOMAIN uaChunks : \A j \in 1..i : uaChunks[j].ok}

\* The chunks SurfaceIterator yields when drained: those that decode.
SdYield == {i \in DOMAIN sdChunks : sdChunks[i].ok}

UaTimes == {uaChunks[i].time : i \in UaYield}
SdTimes == {sdChunks[i].time : i \in SdYield}

StreamsStrictlyIncreasing ==
    /\ \A i, j \in UaYield : i < j => uaChunks[i].time < uaChunks[j].time
    /\ \A i, j \in SdYield : i < j => sdChunks[i].time < sdChunks[j].time

OutTimes == {out[k].time : k \in DOMAIN out}

\* The first upper-air chunk that fails to decode (0 when every chunk decodes).
FirstBadUa ==
    IF \A i \in DOMAIN uaChunks : uaChunks[i].ok THEN 0
    ELSE CHOOSE i \in DOMAIN uaChunks :
            /\ ~uaChunks[i].ok
            /\ \A j \in 1..(i - 1) : uaChunks[j].ok

\* Draining UpperAirIterator: TRUE when the iteration ends on a fatal error.
RECURSIVE UaDrainFatal(_, _)
UaDrainFatal(pos, aborted) ==
    LET r == UpperAirIterator_next(pos, aborted)
    IN  IF r.some THEN UaDrainFatal(r.pos, r.aborted) ELSE r.aborted

\* Draining SurfaceIterator: its next() returns Some or None, so the drain
\* ends with None and no call ends on an error.
RECURSIVE SdDrainFatal(_)
SdDrainFatal(pos) ==
    LET r == SurfaceIterator_next_chunks(pos)
    IN  IF r.some THEN SdDrainFatal(r.pos) ELSE FALSE

----------------------------------------------------------------------------
(* Claims C1 - C4 (SpecMerge) *)

\* C1: for record streams that are each strictly increasing in valid time, the
\* merge emits records in strictly increasing time order (no two share a valid
\* time), each the pair of an upper-air and a surface record of one valid time,
\* and once next() has returned None the emitted valid times are exactly the
\* valid times found in both streams; so k upper-air records with k aligned
\* surface records give k merged records.
C1_MergeOfIncreasingStreams ==
    StreamsStrictlyIncreasing =>
        /\ \A k \in 1..(Len(out) - 1) : out[k].time < out[k + 1].time
        /\ \A k \in DOMAIN out :
              /\ out[k].ua \in UaYield
              /\ out[k].sd \in SdYield
              /\ uaChunks[out[k].ua].time = out[k].time
              /\ sdChunks[out[k].sd].time = out[k].time
        /\ lastResult = "None" =>
              /\ OutTimes = UaTimes \cap SdTimes
              /\ Len(out) = Cardinality(UaTimes \cap SdTimes)
              /\ UaTimes = SdTimes => Len(out) = Cardinality(UaYield)

\* C1 witness: three upper-air records and three time-aligned surface records
\* have given three merged records and the merge has ended.
C1_Witness ==
    /\ StreamsStrictlyIncreasing
    /\ Cardinality(UaYield) = 3
    /\ Cardinality(SdYield) = 3
    /\ UaTimes = SdTimes
    /\ Len(out) = 3
    /\ lastResult = "None"

\* C2: a call of next() in which a pull of either section iterator returns
\* None returns None and emits nothing, and after a None every later call
\* returns None and emits nothing.
C2_StopsAtFirstExhausted ==
    [][calls' # calls =>
          /\ lastPull' # "none" => (lastResult' = "None" /\ out' = out)
          /\ lastResult' = "None" => lastPull' # "none"
          /\ lastResult = "None" => (lastResult' = "None" /\ out' = out)]_vars

\* C2 witness: the surface stream ran out first; a later call returned None
\* although upper-air chunks were left.
C2_Witness ==
    /\ lastResult = "None"
    /\ lastPull = "sd"
    /\ calls >= 2
    /\ Len(out) >= 1
    /\ uaPos <= Len(uaChunks)
    /\ ~uaAborted

----------------------------------------------------------------------------
(* Text: characters, trimming, tokens and the scalar parsers of std *)

\* A text is a sequence of one-character strings.
Whitespace == {" ", "\n"}
Digit == {"0", "1", "2", "3", "4", "5", "6", "7", "8", "9"}

\* char::is_whitespace, char::is_digit(10), char::is_numeric
is_whitespace(c) == c \in Whitespace
is_digit(c) == c \in Digit
is_numeric(c) == c \in Digit

DigitValue(c) ==
    CASE c = "0" -> 0 [] c = "1" -> 1 [] c = "2" -> 2 [] c = "3" -> 3 [] c = "4" -> 4
      [] c = "5" -> 5 [] c = "6" -> 6 [] c = "7" -> 7 [] c = "8" -> 8 [] c = "9" -> 9

\* &s[a..b] with 0-based byte offsets, as a sequence.
Slice(s, a, b) == SubSeq(s, a + 1, b)

RECURSIVE Concat(_)
Concat(ss) == IF ss = <<>> THEN <<>> ELSE Head(ss) \o Concat(Tail(ss))

\* The least and the greatest element of a non-empty set of integers.
Min(S) == CHOOSE i \in S : \A j \in S : i <= j
Max(S) == CHOOSE i \in S : \A j \in S : i >= j

\* The positions of the characters of s that are not whitespace.
NonWhite(s) == {i \in DOMAIN s : ~is_whitespace(s[i])}

\* str::trim_start, str::trim_end, str::trim
trim_start(s) == IF NonWhite(s) = {} THEN <<>> ELSE SubSeq(s, Min(NonWhite(s)), Len(s))

trim_end(s) == IF NonWhite(s) = {} THEN <<>> ELSE SubSeq(s, 1, Max(NonWhite(s)))

trim(s) == trim_end(trim_start(s))

\* Length of the run of non-whitespace characters at the start of s.
TokenLength(s) ==
    IF \A i \in DOMAIN s : ~is_whitespace(s[i]) THEN Len(s)
    ELSE Min({i \in DOMAIN s : is_whitespace(s[i])}) - 1

\* str::split_whitespace, collected: the first token of the trimmed text t,
\* then the tokens of what follows it.
RECURSIVE split_whitespace(_)
TokensFrom(t) ==
    IF t = <<>> THEN <<>>
    ELSE <<SubSeq(t, 1, TokenLength(t))>>
         \o split_whitespace(SubSeq(t, TokenLength(t) + 1, Len(t)))

split_whitespace(s) == TokensFrom(trim_start(s))

\* The value of a run of digits.
RECURSIVE DigitsValue(_)
DigitsValue(ds) ==
    IF ds = <<>> THEN 0
    ELSE 10 * DigitsValue(SubSeq(ds, 1, Len(ds) - 1)) + DigitValue(ds[Len(ds)])

AllDigits(s) == s # <<>> /\ \A i \in DOMAIN s : is_digit(s[i])

ParseErr == [ok |-> FALSE, val |-> 0]

\* The integer parsers overflow on a value beyond 32 bits.  The tokens of the
\* texts have nine digits at most, all within range; a longer run of digits is
\* taken as an overflow.
Overflows(ds) == Len(ds) > 9

\* i32::from_str: an optional sign, then one or more digits, within i32.
i32_from_str(s) ==
    LET signed == s # <<>> /\ Head(s) \in {"-", "+"}
        ds == IF signed THEN Tail(s) ELSE s
    IN  IF ~AllDigits(ds) \/ Overflows(ds) THEN ParseErr
        ELSE [ok |-> TRUE,
              val |-> IF signed /\ Head(s) = "-" THEN 0 - DigitsValue(ds) ELSE DigitsValue(ds)]

\* u32::from_str: an optional +, then one or more digits, within u32.
u32_from_str(s) ==
    LET signed == s # <<>> /\ Head(s) = "+"
        ds == IF signed THEN Tail(s) ELSE s
    IN  IF ~AllDigits(ds) \/ Overflows(ds) THEN ParseErr
        ELSE [ok |-> TRUE, val |-> DigitsValue(ds)]

\* A decimal value m / 10^e, trailing zeros of the fraction dropped.
RECURSIVE Decimal(_, _)
Decimal(m, e) == IF e > 0 /\ m % 10 = 0 THEN Decimal(m \div 10, e - 1) ELSE [m |-> m, e |-> e]

\* f64::from_str on plain decimal notation: an optional sign, digits with at
\* most one point and at least one digit.  The value is kept exactly, as a
\* Decimal; exponents, inf and nan are not in the alphabet of the texts.
f64_from_str(s) ==
    LET signed == s # <<>> /\ Head(s) \in {"-", "+"}
        body == IF signed THEN Tail(s) ELSE s
        points == {i \in DOMAIN body : body[i] = "."}
        ds == IF points = {} THEN body
              ELSE LET p == CHOOSE i \in points : TRUE
                   IN  SubSeq(body, 1, p - 1) \o SubSeq(body, p + 1, Len(body))
        e == IF points = {} THEN 0 ELSE Len(body) - (CHOOSE i \in points : TRUE)
    IN  IF Cardinality(points) > 1 \/ ~AllDigits(ds) \/ Overflows(ds) THEN ParseErr
        ELSE LET v == DigitsValue(ds)
             IN  [ok |-> TRUE,
                  val |-> Decimal(IF signed /\ Head(s) = "-" THEN 0 - v ELSE v, e)]

\* Missing or no-data value of Bufkit files.
MISSING_F64 == Decimal(-9999, 0)

\* check_missing: the sentinel becomes none, any other value some(value).
NoValue == [some |-> FALSE]
\* check_missing that keeps the sentinel as a value.
check_missing_KeepsSentinel(val) == [some |-> TRUE, val |-> val]

check_missing(val) == IF val = MISSING_F64 THEN NoValue ELSE [some |-> TRUE, val |-> val]

----------------------------------------------------------------------------
(* parse_util: parse_naive_date_time and find_next_n_tokens *)

IsLeapYear(y) == (y % 4 = 0 /\ y % 100 # 0) \/ y % 400 = 0

DaysInMonth(y, m) ==
    IF m = 2 THEN (IF IsLeapYear(y) THEN 29 ELSE 28)
    ELSE IF m \in {4, 6, 9, 11} THEN 30 ELSE 31

\* NaiveDate::from_ymd(..).and_hms(.., 0) panics on a date or time out of range.
ValidDateTime(y, mo, d, h, mi) ==
    /\ mo \in 1..12
    /\ d >= 1 /\ d <= DaysInMonth(y, mo)
    /\ h \in 0..23
    /\ mi \in 0..59

\* parse_naive_date_time on the trimmed token: the fields are byte slices of
\* it, taken and parsed one after the other; a slice past the end of the token
\* and a date out of range are run-time faults, a field that does not parse is
\* an error.
DateTimeOf(v) ==
    LET Panic == [kind |-> "Panic"]
        Error == [kind |-> "Err"]
        year == i32_from_str(Slice(v, 0, 2))
        month == u32_from_str(Slice(v, 2, 4))
        day == u32_from_str(Slice(v, 4, 6))
        hour == u32_from_str(Slice(v, 7, 9))
        minute == u32_from_str(Slice(v, 9, 11))
    IN  IF Len(v) < 2 THEN Panic
        ELSE IF ~year.ok THEN Error
        ELSE IF Len(v) < 4 THEN Panic
        ELSE IF ~month.ok THEN Error
        ELSE IF Len(v) < 6 THEN Panic
        ELSE IF ~day.ok THEN Error
        ELSE IF Len(v) < 9 THEN Panic
        ELSE IF ~hour.ok THEN Error
        ELSE IF Len(v) < 11 THEN Panic
        ELSE IF ~minute.ok THEN Error
        ELSE IF ~ValidDateTime(year.val + 2000, month.val, day.val, hour.val, minute.val)
             THEN Panic
        ELSE [kind |-> "Ok",
              val |-> <<year.val + 2000, month.val, day.val, hour.val, minute.val, 0>>]

\* parse_naive_date_time
parse_naive_date_time(src) == DateTimeOf(trim(src))

\* The loop of find_next_n_tokens from the character at 0-based offset i.
RECURSIVE ScanTokens(_, _, _, _, _, _)
ScanTokens(src, n, i, started, token_count, in_white_space) ==
    IF i >= Len(src)
    THEN \* Special case for end of string, invalid number of tokens, out of tokens
         IF ~in_white_space /\ token_count = n - 1 THEN [kind |-> "Some", brk |-> Len(src)]
         ELSE IF token_count > 0 THEN [kind |-> "Err", brk |-> 0]
         ELSE [kind |-> "None", brk |-> 0]
    ELSE LET c == src[i + 1]
             first == ~started /\ (is_numeric(c) \/ c = "-" \/ c = ".")
             enters == ~first /\ ~in_white_space /\ is_whitespace(c)
             leaves == ~first /\ ~enters /\ in_white_space /\ ~is_whitespace(c)
             count == IF enters THEN token_count + 1 ELSE token_count
             ws == IF enters THEN TRUE ELSE IF leaves THEN FALSE ELSE in_white_space
         IN  IF count = n THEN [kind |-> "Some", brk |-> i]
             ELSE ScanTokens(src, n, i + 1, started \/ first, count, ws)

\* find_next_n_tokens
find_next_n_tokens(src, n) ==
    IF trim(src) = <<>> THEN [kind |-> "None", brk |-> 0]
    ELSE ScanTokens(src, n, 0, FALSE, 0, src # <<>> /\ is_whitespace(Head(src)))

----------------------------------------------------------------------------
(* Surface: SurfaceData::parse_columns and parse_values *)

\* SfcColName of a header token: the match of parse_columns.
SfcColName(val) ==
    CASE val = <<"S", "T", "N">> -> "STN"
      [] val = <<"Y", "Y", "M", "M", "D", "D", "/", "H", "H", "M", "M">> -> "VALIDTIME"
      [] val = <<"P", "M", "S", "L">> -> "PMSL"
      [] val = <<"P", "R", "E", "S">> -> "PRES"
      [] val = <<"L", "C", "L", "D">> -> "LCLD"
      [] val = <<"M", "C", "L", "D">> -> "MCLD"
      [] val = <<"H", "C", "L", "D">> -> "HCLD"
      [] val = <<"U", "W", "N", "D">> -> "UWND"
      [] val = <<"V", "W", "N", "D">> -> "VWND"
      [] val = <<"T", "2", "M", "S">> -> "T2MS"
      [] val = <<"T", "D", "2", "M">> -> "TD2M"
      [] val = <<"S", "K", "T", "C">> -> "SKTC"
      [] val = <<"S", "T", "C", "1">> -> "STC1"
      [] val = <<"S", "N", "F", "L">> -> "SNFL"
      [] val = <<"P", "0", "1", "M">> -> "P01M"
      [] val = <<"C", "0", "1", "M">> -> "C01M"
      [] val = <<"S", "T", "C", "2">> -> "STC2"
      [] val = <<"S", "N", "R", "A">> -> "SNRA"
      [] val = <<"W", "X", "T", "S">> -> "WXTS"
      [] val = <<"W", "X", "T", "P">> -> "WXTP"
      [] val = <<"W", "X", "T", "Z">> -> "WXTZ"
      [] val = <<"W", "X", "T", "R">> -> "WXTR"
      [] val = <<"U", "S", "T", "M">> -> "USTM"
      [] val = <<"V", "S", "T", "M">> -> "VSTM"
      [] val = <<"H", "L", "C", "Y">> -> "HLCY"
      [] val = <<"W", "S", "Y", "M">> -> "WSYM"
      [] OTHER -> "NONE"

\* The check with && for ||, and with the station number alone.
RequiredColumnsMissing_BothAbsent(names) ==
    "STN" \notin Range(names) /\ "VALIDTIME" \notin Range(names)

RequiredColumnsMissing_StationOnly(names) == "STN" \notin Range(names)

\* The check of parse_columns that the required columns were found.
RequiredColumnsMissing(names) ==
    "STN" \notin Range(names) \/ "VALIDTIME" \notin Range(names)

\* parse_columns with no tag pushed for an unrecognised token.
parse_columns_DropsUnrecognised(header) ==
    LET cols_text == split_whitespace(trim(header))
        names == SelectSeq([i \in DOMAIN cols_text |-> SfcColName(trim(cols_text[i]))],
                           LAMBDA n : n # "NONE")
    IN  IF RequiredColumnsMissing(names) THEN [ok |-> FALSE, names |-> <<>>]
        ELSE [ok |-> TRUE, names |-> names]

\* SurfaceData::parse_columns: the layout of a header, or an error.
parse_columns(header) ==
    LET cols_text == split_whitespace(trim(header))
        names == [i \in DOMAIN cols_text |-> SfcColName(trim(cols_text[i]))]
    IN  IF RequiredColumnsMissing(names) THEN [ok |-> FALSE, names |-> <<>>]
        ELSE [ok |-> TRUE, names |-> names]

\* The fields of SurfaceData that hold an optional value.
OptionalFields ==
    {"mslp", "station_pres", "low_cloud", "mid_cloud", "hi_cloud", "wind", "temperature",
     "dewpoint", "skin_temp", "lyr_1_soil_temp", "snow_1hr", "p01", "c01",
     "lyr_2_soil_temp", "snow_ratio", "snow_type", "ice_pellets_type", "fzra_type",
     "rain_type", "storm_motion", "srh", "wx_sym_cod"}

\* std::i32::MIN
I32_MIN == -2147483647 - 1

\* SurfaceData::default
SurfaceData_default ==
    [station_num |-> I32_MIN,
     valid_time |-> <<0, 1, 1, 0, 0, 0>>,
     opt |-> [f \in OptionalFields |-> NoValue]]

\* The field a float column is stored in, and the locals of parse_values that
\* hold the wind components.
FieldOf(col) ==
    CASE col = "PMSL" -> "mslp" [] col = "PRES" -> "station_pres"
      [] col = "LCLD" -> "low_cloud" [] col = "MCLD" -> "mid_cloud" [] col = "HCLD" -> "hi_cloud"
      [] col = "UWND" -> "u_wind" [] col = "VWND" -> "v_wind"
      [] col = "T2MS" -> "temperature" [] col = "TD2M" -> "dewpoint"
      [] col = "SKTC" -> "skin_temp" [] col = "STC1" -> "lyr_1_soil_temp"
      [] col = "SNFL" -> "snow_1hr" [] col = "P01M" -> "p01" [] col = "C01M" -> "c01"
      [] col = "STC2" -> "lyr_2_soil_temp" [] col = "SNRA" -> "snow_ratio"
      [] col = "WXTS" -> "snow_type" [] col = "WXTP" -> "ice_pellets_type"
      [] col = "WXTZ" -> "fzra_type" [] col = "WXTR" -> "rain_type"
      [] col = "USTM" -> "u_storm" [] col = "VSTM" -> "v_storm"
      [] col = "HLCY" -> "srh" [] col = "WSYM" -> "wx_sym_cod"

\* val > 0.5 for a Decimal: m / 10^e > 1/2.
RECURSIVE Pow10(_)
Pow10(e) == IF e = 0 THEN 1 ELSE 10 * Pow10(e - 1)

MoreThanHalf(d) == 2 * d.m > Pow10(d.e)

\* The conversion a column applies to a present value: cloud amounts are
\* divided by 100, weather types compared with 0.5, the rest only wrapped.
Converted(col, v) ==
    IF ~v.some THEN v
    ELSE IF col \in {"LCLD", "MCLD", "HCLD"}
         THEN [some |-> TRUE, val |-> Decimal(v.val.m, v.val.e + 2)]
    ELSE IF col \in {"WXTS", "WXTP", "WXTZ", "WXTR"}
         THEN [some |-> TRUE, val |-> MoreThanHalf(v.val)]
    ELSE v

\* The index sentinel of parse_util, compared with in the WSYM column only.
MISSING_F64_INDEX == Decimal(999, 0)

\* The arms of the match of parse_values on the column of a token, each with
\* the parsed token: the record and locals after it, or the error or run-time
\* fault that ends the row.
ArmDummy(f, acc) == IF f.ok THEN [kind |-> "Ok", acc |-> acc] ELSE [kind |-> "Err"]

ArmStation(n, acc) ==
    IF n.ok THEN [kind |-> "Ok", acc |-> [acc EXCEPT !.station_num = n.val]]
    ELSE [kind |-> "Err"]

ArmValidTime(t, acc) ==
    IF t.kind = "Ok" THEN [kind |-> "Ok", acc |-> [acc EXCEPT !.valid_time = t.val]]
    ELSE [kind |-> t.kind]

ArmSymbol(f, acc) ==
    [kind |-> "Ok",
     acc |-> [acc EXCEPT !.opt["wx_sym_cod"] =
                 IF f.ok /\ f.val # MISSING_F64_INDEX /\ f.val # MISSING_F64
                 THEN [some |-> TRUE, val |-> f.val] ELSE NoValue]]

ArmFloat(col, f, acc) ==
    IF ~f.ok THEN [kind |-> "Err"]
    ELSE IF FieldOf(col) \in {"u_wind", "v_wind", "u_storm", "v_storm"}
         THEN [kind |-> "Ok",
               acc |-> [acc EXCEPT !.local[FieldOf(col)] = check_missing(f.val)]]
    ELSE [kind |-> "Ok",
          acc |-> [acc EXCEPT !.opt[FieldOf(col)] = Converted(col, check_missing(f.val))]]

\* The match of parse_values on the column of a token.
ParseToken(col, token, acc) ==
    CASE col = "NONE" -> ArmDummy(f64_from_str(token), acc)
      [] col = "STN" -> ArmStation(i32_from_str(token), acc)
      [] col = "VALIDTIME" -> ArmValidTime(parse_naive_date_time(token), acc)
      [] col = "WSYM" -> ArmSymbol(f64_from_str(token), acc)
      [] OTHER -> ArmFloat(col, f64_from_str(token), acc)

\* The loop of parse_values over the columns from 0-based index i; r is what
\* the match on column i gave.
RECURSIVE ParseRow(_, _, _, _)
RowAfterToken(tokens, names, i, r) ==
    IF r.kind = "Ok" THEN ParseRow(tokens, names, i + 1, r.acc) ELSE r

ParseRow(tokens, names, i, acc) ==
    IF i >= Len(names) THEN [kind |-> "Ok", acc |-> acc]
    ELSE IF i >= Len(tokens) THEN [kind |-> "Err"]
    ELSE RowAfterToken(tokens, names, i, ParseToken(names[i + 1], tokens[i + 1], acc))

\* and_then / map_t on two components: present when both are.
Both(u, v) == IF u.some /\ v.some THEN [some |-> TRUE, val |-> <<u.val, v.val>>] ELSE NoValue

\* The end of parse_values: the winds are put together from their components.
RowResult(r) ==
    IF r.kind # "Ok" THEN [kind |-> r.kind]
    ELSE [kind |-> "Ok",
          sd |-> [station_num |-> r.acc.station_num,
                  valid_time |-> r.acc.valid_time,
                  opt |-> [r.acc.opt EXCEPT
                             !["wind"] = Both(r.acc.local["u_wind"], r.acc.local["v_wind"]),
                             !["storm_motion"] =
                                 Both(r.acc.local["u_storm"], r.acc.local["v_storm"])]]]

\* SurfaceData::parse_values: "Ok" with the record, "Err", or "Panic".
parse_values(text, names) ==
    RowResult(ParseRow(split_whitespace(text), names, 0,
                       [station_num |-> SurfaceData_default.station_num,
                        valid_time |-> SurfaceData_default.valid_time,
                        opt |-> SurfaceData_default.opt,
                        local |-> [l \in {"u_wind", "v_wind", "u_storm", "v_storm"} |->
                                     NoValue]]))

----------------------------------------------------------------------------
(* Surface: SurfaceSection and SurfaceIterator over the characters of a text *)

\* The loop of SurfaceSection::new that looks for the end of the header: the
\* 0-based offset of the first digit that follows a whitespace character (the
\* character taken to precede offset 0 is 'x').
HeaderEnds(text) ==
    {i \in 1..(Len(text) - 1) : is_whitespace(text[i]) /\ is_digit(text[i + 1])}

HeaderEnd(text) ==
    IF HeaderEnds(text) = {} THEN [found |-> FALSE, header_end |-> 0]
    ELSE [found |-> TRUE, header_end |-> Min(HeaderEnds(text))]

\* SurfaceSection::new after the loop, and after parse_columns; an error is
\* kept with the statement that returned it.
SectionWithColumns(text, header_end, cols) ==
    IF ~cols.ok THEN [status |-> "Err", at |-> "parse_columns"]
    ELSE [status |-> "Ok",
          raw_text |-> trim(Slice(text, header_end, Len(text))),
          columns |-> cols.names]

SectionWithHeader(text, h) ==
    IF ~h.found THEN [status |-> "Err", at |-> "header_end"]
    ELSE SectionWithColumns(text, h.header_end,
                            parse_columns(trim(Slice(text, 0, h.header_end))))

\* SurfaceSection::new
SurfaceSection_new(text) == SectionWithHeader(text, HeaderEnd(text))

\* get_next_chunk with the cursor left where it was.
ChunkAt_KeepsCursor(rem, r) ==
    IF r.kind = "Some"
    THEN [kind |-> "Some", chunk |-> Slice(rem, 0, r.brk), remaining |-> rem]
    ELSE [kind |-> r.kind, remaining |-> rem]

\* get_next_chunk with the chunk cut one character short.
ChunkAt_DropsCharacter(rem, r) ==
    IF r.kind = "Some"
    THEN [kind |-> "Some", chunk |-> Slice(rem, 0, r.brk - 1),
          remaining |-> Slice(rem, r.brk, Len(rem))]
    ELSE [kind |-> r.kind, remaining |-> rem]

\* SurfaceIterator::get_next_chunk, r being what find_next_n_tokens returned.
ChunkAt(rem, r) ==
    IF r.kind = "Some"
    THEN [kind |-> "Some", chunk |-> Slice(rem, 0, r.brk),
          remaining |-> Slice(rem, r.brk, Len(rem))]
    ELSE [kind |-> r.kind, remaining |-> rem]

\* SurfaceIterator::get_next_chunk
get_next_chunk(rem, names) == ChunkAt(rem, find_next_n_tokens(rem, Len(names)))

\* SurfaceIterator::next: chunks are taken until one decodes.  NextOnRow is
\* the body of the while loop, pv being what parse_values returned: a chunk
\* that does not decode is dropped and a run-time fault in its decoding
\* unwinds through next.  NextOnChunk is the condition of the loop, c being
\* what get_next_chunk returned: anything but a chunk ends the call with None.
RECURSIVE SurfaceIterator_next(_, _)
NextOnRow(c, pv, names) ==
    IF pv.kind = "Ok" THEN [result |-> "Some", sd |-> pv.sd, remaining |-> c.remaining]
    ELSE IF pv.kind = "Panic" THEN [result |-> "Panic", remaining |-> c.remaining]
    ELSE SurfaceIterator_next(c.remaining, names)

\* The condition of the loop with the error of get_next_chunk handed on.
NextOnChunk_PropagatesError(c, names) ==
    IF c.kind # "Some" THEN [result |-> c.kind, remaining |-> c.remaining]
    ELSE NextOnRow(c, parse_values(c.chunk, names), names)

NextOnChunk(c, names) ==
    IF c.kind # "Some" THEN [result |-> "None", remaining |-> c.remaining]
    ELSE NextOnRow(c, parse_values(c.chunk, names), names)

SurfaceIterator_next(rem, names) == NextOnChunk(get_next_chunk(rem, names), names)

----------------------------------------------------------------------------
(* Surface: the texts and the operations of SpecSurface *)

MaxRows == 3        \* rows in a surface text
MaxHdr == 3         \* tokens in a surface header

Tok_STN == <<"S", "T", "N">>
Tok_VALIDTIME == <<"Y", "Y", "M", "M", "D", "D", "/", "H", "H", "M", "M">>

\* Header tokens: the required tags, a float column and a tag parse_columns
\* does not know.
HeaderTokens == {Tok_STN, Tok_VALIDTIME, <<"P", "M", "S", "L">>, <<"E", "V", "A", "P">>}

\* Rows for the layout STN YYMMDD/HHMM PMSL, each with what it says: three
\* rows that decode (one with the missing-value sentinel), a row with a
\* letter for a float, a row with a short valid time, and a row with a
\* one-digit station number.
RowCatalog ==
    {[toks |-> <<<<"7", "2", "7", "7", "3", "0">>, <<"1", "7", "0", "4", "0", "1", "/", "0", "0", "0", "0">>, <<"1", "0", "1", "2", ".", "5">>>>, wellFormed |-> TRUE,
      station_num |-> 727730, valid_time |-> <<2017, 4, 1, 0, 0, 0>>],
     [toks |-> <<<<"7", "2", "7", "7", "3", "0">>, <<"1", "7", "0", "4", "0", "1", "/", "0", "3", "0", "0">>, <<"-", "9", "9", "9", "9", ".", "0", "0">>>>, wellFormed |-> TRUE,
      station_num |-> 727730, valid_time |-> <<2017, 4, 1, 3, 0, 0>>],
     [toks |-> <<<<"7", "2", "7", "7", "3", "0">>, <<"1", "7", "0", "4", "0", "1", "/", "0", "6", "0", "0">>, <<"1", "0", "0", "8">>>>, wellFormed |-> TRUE,
      station_num |-> 727730, valid_time |-> <<2017, 4, 1, 6, 0, 0>>],
     [toks |-> <<<<"7", "2", "7", "7", "3", "0">>, <<"1", "7", "0", "4", "0", "1", "/", "0", "3", "0", "0">>, <<"x">>>>, wellFormed |-> FALSE,
      station_num |-> 0, valid_time |-> <<>>],
     [toks |-> <<<<"7", "2", "7", "7", "3", "0">>, <<"1", "7", "0", "4">>, <<"1", "0", "1", "2", ".", "5">>>>, wellFormed |-> FALSE,
      station_num |-> 0, valid_time |-> <<>>],
     [toks |-> <<<<"5">>, <<"1", "7", "0", "4", "0", "1", "/", "0", "9", "0", "0">>, <<"1", "0", "0", "8">>>>, wellFormed |-> TRUE,
      station_num |-> 5, valid_time |-> <<2017, 4, 1, 9, 0, 0>>]}

\* What follows the last row: nothing, a line end, or a partial group of tokens.
Tails == {<<>>, <<"\n">>, <<"\n">> \o <<"7", "2", "7">>}

\* The two rows written under a header of any layout: each column holds a
\* value of its type.
RowFor(header, timeTok, time) ==
    [toks |-> [i \in DOMAIN header |->
                 IF header[i] = Tok_STN THEN <<"7", "2", "7", "7", "3", "0">>
                 ELSE IF header[i] = Tok_VALIDTIME THEN timeTok
                 ELSE <<"1", "0", "1", "2", ".", "5">>],
     wellFormed |-> TRUE, station_num |-> 727730, valid_time |-> time]

BodyFor(header) ==
    <<RowFor(header, <<"1", "7", "0", "4", "0", "1", "/", "0", "0", "0", "0">>, <<2017, 4, 1, 0, 0, 0>>),
      RowFor(header, <<"1", "7", "0", "4", "0", "1", "/", "0", "3", "0", "0">>, <<2017, 4, 1, 3, 0, 0>>)>>

Prefixes(s) == {SubSeq(s, 1, k) : k \in 0..Len(s)}

\* Tokens joined by single spaces.
RECURSIVE Join(_)
Join(toks) ==
    IF toks = <<>> THEN <<>>
    ELSE IF Len(toks) = 1 THEN toks[1]
    ELSE toks[1] \o <<" ">> \o Join(Tail(toks))

\* The surface block of a file: the header line, one line per row, the tail.
SurfaceText(header, rows, tail) ==
    Join(header) \o Concat([i \in DOMAIN rows |-> <<"\n">> \o Join(rows[i].toks)]) \o tail

InitSurface ==
    /\ IdleMerge
    /\ IdleInit
    /\ IdleProfile
    /\ IdleCall
    /\ IdleTwins
    /\ \/ /\ sfcHeader = <<Tok_STN, Tok_VALIDTIME, <<"P", "M", "S", "L">>>>
          /\ sfcRows \in SeqsUpTo(RowCatalog, MaxRows)
          /\ \E tail \in Tails : sfcText = SurfaceText(sfcHeader, sfcRows, tail)
       \/ /\ sfcHeader \in SeqsUpTo(HeaderTokens, MaxHdr)
          /\ sfcRows \in Prefixes(BodyFor(sfcHeader))
          /\ sfcText = SurfaceText(sfcHeader, sfcRows, <<>>)
    /\ section = [status |-> "none"]
    /\ remaining = <<>>
    /\ iterState = "none"
    /\ yielded = <<>>
    /\ sfcResult = "init"
    /\ sfcCalls = 0

\* SurfaceSection::new(text)
New_call ==
    /\ section.status = "none"
    /\ section' = SurfaceSection_new(sfcText)
    /\ UNCHANGED <<sfcText, sfcHeader, sfcRows, remaining, iterState, yielded, sfcResult,
                   sfcCalls>>
    /\ UNCHANGED notSurface

\* (&section).into_iter()
IntoIter_call ==
    /\ section.status = "Ok"
    /\ iterState = "none"
    /\ remaining' = section.raw_text
    /\ iterState' = "live"
    /\ UNCHANGED <<sfcText, sfcHeader, sfcRows, section, yielded, sfcResult, sfcCalls>>
    /\ UNCHANGED notSurface

\* SurfaceIterator::next(), r being what it returned; a run-time fault ends
\* the use of the iterator.
SurfaceNext_returns(r) ==
    /\ remaining' = r.remaining
    /\ sfcResult' = r.result
    /\ yielded' = IF r.result = "Some" THEN Append(yielded, r.sd) ELSE yielded
    /\ iterState' = IF r.result = "Panic" THEN "panicked" ELSE "live"

SurfaceNext_call ==
    /\ iterState = "live"
    /\ sfcCalls < Len(sfcRows) + 2
    /\ SurfaceNext_returns(SurfaceIterator_next(remaining, section.columns))
    /\ sfcCalls' = sfcCalls + 1
    /\ UNCHANGED <<sfcText, sfcHeader, sfcRows, section>>
    /\ UNCHANGED notSurface

NextSurface == New_call \/ IntoIter_call \/ SurfaceNext_call

SpecSurface == InitSurface /\ [][NextSurface]_vars

----------------------------------------------------------------------------
(* Claims about the surface section *)

\* What the rows of the text say, and what the iterator has returned.
WellFormedRows == SelectSeq(sfcRows, LAMBDA r : r.wellFormed)
ExpectedKeys == [i \in DOMAIN WellFormedRows |->
                   <<WellFormedRows[i].station_num, WellFormedRows[i].valid_time>>]
YieldedKeys == [i \in DOMAIN yielded |-> <<yielded[i].station_num, yielded[i].valid_time>>]
IterationOver == iterState = "panicked" \/ (iterState = "live" /\ sfcResult = "None")

\* C5: a row that fails to decode is dropped, alone, and the iteration goes
\* on: when the iteration is over SurfaceIterator has returned the record of
\* every well-formed row of the text, in text order.
C5_EveryWellFormedRowProduced == IterationOver => YieldedKeys = ExpectedKeys

\* The number of tokens left in the text the iterator has not consumed.
TokensLeft == Len(split_whitespace(remaining))
NumCols == Len(section.columns)

\* C6: next() never returns an error; with fewer than N tokens left (none, or
\* a partial trailing group) it returns None and leaves cursor and records as
\* they are, and once it has returned None it returns None with the cursor
\* unchanged on every later call.
C6_EndIsNoneAndStaysNone ==
    [][sfcCalls' # sfcCalls =>
        /\ sfcResult' # "Err"
        /\ TokensLeft < NumCols =>
              sfcResult' = "None" /\ remaining' = remaining /\ yielded' = yielded
        /\ sfcResult = "None" => sfcResult' = "None" /\ remaining' = remaining]_vars

\* Two calls in a row have returned None on a partial trailing group, after
\* at least one record.
C6_Witness ==
    /\ iterState = "live"
    /\ sfcResult = "None"
    /\ yielded # <<>>
    /\ sfcCalls >= Len(yielded) + 2
    /\ TokensLeft >= 1 /\ TokensLeft < NumCols

HeaderLacksStn == Tok_STN \notin Range(sfcHeader)
HeaderLacksTime == Tok_VALIDTIME \notin Range(sfcHeader)
ColumnsError == section.status = "Err" /\ section.at = "parse_columns"

\* C8: a header that lacks STN or lacks YYMMDD/HHMM makes the construction of
\* the section fail, so no iterator exists and no row is decoded; the layout of
\* every section constructed holds both tags.
C8_HeaderNeedsBothTags ==
    section.status # "none" =>
        /\ (HeaderLacksStn \/ HeaderLacksTime) =>
              section.status = "Err" /\ iterState = "none" /\ yielded = <<>> /\ sfcCalls = 0
        /\ section.status = "Ok" =>
              "STN" \in Range(section.columns) /\ "VALIDTIME" \in Range(section.columns)

\* A header with STN, without YYMMDD/HHMM and with rows under it is refused.
C8_Witness ==
    /\ ColumnsError
    /\ ~HeaderLacksStn /\ HeaderLacksTime
    /\ sfcRows # <<>>

\* C9 as stated: the header decode fails for a missing required column only
\* if both tags are absent.
C9_Original == ColumnsError => (HeaderLacksStn /\ HeaderLacksTime)

\* C9: the header decode fails for a missing required column exactly when at
\* least one of the two tags is absent from the header.
C9_FailsIffEitherTagAbsent ==
    (section.status = "Ok" \/ ColumnsError) =>
        (ColumnsError <=> (HeaderLacksStn \/ HeaderLacksTime))

\* A header with YYMMDD/HHMM and without STN is refused by parse_columns.
C9_Witness ==
    /\ ColumnsError
    /\ HeaderLacksStn /\ ~HeaderLacksTime

----------------------------------------------------------------------------
(* BufkitData::init: the split of a file into its two blocks *)

MaxPieces == 4      \* pieces a file text is put together from

\* The literal find_break_point looks for.
Marker == <<"S", "T", "N", " ", "Y", "Y", "M", "M", "D", "D", "/", "H", "H", "M", "M">>

\* The pieces of a file text: the marker, a part of the marker, the rest of a
\* surface header with one row, and a line of an upper-air record.
Pieces ==
    {Marker,
     <<"S", "T", "N", " ">>,
     <<" ">> \o <<"P", "M", "S", "L">> \o <<"\n">> \o <<"7", "2", "7", "7", "3", "0", " ", "1", "7", "0", "4", "0", "1", "/", "0", "0", "0", "0", " ", "1", "0", "1", "2", ".", "5">> \o <<"\n">>,
     <<"S", "T", "I", "D", " ", "=", " ", "K", "M", "S", "O">> \o <<"\n">>}

\* The 0-based offsets at which pat occurs in text.
Occurrences(text, pat) ==
    {i \in 0..(Len(text) - Len(pat)) : Slice(text, i, i + Len(pat)) = pat}

\* str::find(pattern): the first offset at which the pattern starts, or none.
str_find(text, pat) ==
    IF Occurrences(text, pat) = {} THEN [some |-> FALSE]
    ELSE [some |-> TRUE, val |-> Min(Occurrences(text, pat))]

\* str::rfind(pattern): the last offset at which the pattern starts, or none.
str_rfind(text, pat) ==
    IF Occurrences(text, pat) = {} THEN [some |-> FALSE]
    ELSE [some |-> TRUE, val |-> Max(Occurrences(text, pat))]

\* find_break_point with the last occurrence of the marker for the first.
find_break_point_LastOccurrence(text) == str_rfind(text, Marker)

\* BufkitData::find_break_point: the offset of the marker, or an error (none).
find_break_point(text) == str_find(text, Marker)

\* UpperAirSection::new: the section holds the block it is given; it cannot fail.
UpperAirSection_new(text) == [raw_text |-> text]

\* BufkitData::new_with_break_point: the blocks the two section constructors
\* are called with, and the data or the error of the surface constructor.
SectionsOf(ua_block, sfc_block, surface) ==
    IF surface.status = "Err"
    THEN [status |-> "Err", at |-> "SurfaceSection", blocks |-> <<ua_block, sfc_block>>]
    ELSE [status |-> "Ok", blocks |-> <<ua_block, sfc_block>>,
          upper_air |-> UpperAirSection_new(ua_block), surface |-> surface]

new_with_break_point(text, break_point) ==
    SectionsOf(Slice(text, 0, break_point), Slice(text, break_point, Len(text)),
               SurfaceSection_new(Slice(text, break_point, Len(text))))

\* BufkitData::init, break_point being what find_break_point returned; no
\* constructor is called when it is an error.
InitAt(text, break_point) ==
    IF ~break_point.some
    THEN [status |-> "Err", at |-> "find_break_point", blocks |-> <<>>]
    ELSE new_with_break_point(text, break_point.val)

\* BufkitData::init
BufkitData_init(text) == InitAt(text, find_break_point(text))

InitInit ==
    /\ IdleMerge
    /\ IdleSurface
    /\ IdleProfile
    /\ IdleCall
    /\ IdleTwins
    /\ fileText \in {Concat(ps) : ps \in SeqsUpTo(Pieces, MaxPieces)}
    /\ initResult = [status |-> "none"]

\* BufkitData::init(text, fname)
BufkitData_init_call ==
    /\ initResult.status = "none"
    /\ initResult' = BufkitData_init(fileText)
    /\ UNCHANGED fileText
    /\ UNCHANGED notInit

NextInit == BufkitData_init_call

SpecInit == InitInit /\ [][NextInit]_vars

----------------------------------------------------------------------------
(* Claims about BufkitData::init *)

\* The offsets at which the marker occurs in the file text.
MarkerOffsets ==
    {i \in 0..(Len(fileText) - Len(Marker)) :
        \A j \in 1..Len(Marker) : fileText[i + j] = Marker[j]}

\* C7: without the marker in the text init fails and no section constructor
\* has been called; with the marker the text is cut at its first occurrence:
\* the upper-air block is the text before it, the surface block the text from
\* it onward, and the two blocks one after the other are the whole text.
C7_SplitAtFirstMarker ==
    initResult.status # "none" =>
        IF MarkerOffsets = {}
        THEN initResult.status = "Err" /\ initResult.blocks = <<>>
        ELSE LET first == CHOOSE i \in MarkerOffsets : \A k \in MarkerOffsets : i <= k
             IN  /\ Len(initResult.blocks) = 2
                 /\ initResult.blocks[1] = SubSeq(fileText, 1, first)
                 /\ initResult.blocks[2] = SubSeq(fileText, first + 1, Len(fileText))
                 /\ initResult.blocks[1] \o initResult.blocks[2] = fileText

\* A text with upper-air lines before the marker and the marker twice has been
\* split and both sections built.
C7_Witness ==
    /\ initResult.status = "Ok"
    /\ Cardinality(MarkerOffsets) >= 2
    /\ initResult.upper_air.raw_text # <<>>

----------------------------------------------------------------------------
(* Upper air: Profile::parse and UpperAir::validate *)

\* ColName of a header token: the match of get_column_indexes; an
\* unrecognised token has none.
ColName(val) ==
    CASE val = <<"P", "R", "E", "S">> -> "PRES" [] val = <<"T", "M", "P", "C">> -> "TMPC" [] val = <<"T", "M", "W", "C">> -> "TMWC"
      [] val = <<"D", "W", "P", "C">> -> "DWPC" [] val = <<"T", "H", "T", "E">> -> "THTE" [] val = <<"D", "R", "C", "T">> -> "DRCT"
      [] val = <<"S", "K", "N", "T">> -> "SKNT" [] val = <<"O", "M", "E", "G">> -> "OMEG" [] val = <<"C", "F", "R", "L">> -> "CFRL"
      [] val = <<"H", "G", "H", "T">> -> "HGHT" [] OTHER -> "NONE"

\* The length of ProfileColIndexes::names.
NumColSlots == 10

\* str::find of the first '-' or digit: its 0-based offset, or none.
ValueStarts(src) == {i \in 0..(Len(src) - 1) : src[i + 1] = "-" \/ is_digit(src[i + 1])}

FindValuesStart(src) ==
    IF ValueStarts(src) = {} THEN [some |-> FALSE]
    ELSE [some |-> TRUE, val |-> Min(ValueStarts(src))]

\* The loop of get_column_indexes from the 0-based token index i; names is
\* the ten-slot table, written at slot i.
RECURSIVE FillColumns(_, _, _)
FillColumns(cols_text, i, names) ==
    IF i >= Len(cols_text) THEN [kind |-> "Ok", names |-> names]
    ELSE IF ColName(trim(cols_text[i + 1])) = "NONE" THEN [kind |-> "Err"]
    ELSE IF i >= NumColSlots THEN [kind |-> "Panic"]
    ELSE FillColumns(cols_text, i + 1,
                     [names EXCEPT ![i + 1] = ColName(trim(cols_text[i + 1]))])

\* Profile::get_column_indexes
get_column_indexes(header) ==
    FillColumns(split_whitespace(trim(header)), 0, [s \in 1..NumColSlots |-> "NONE"])

\* ProfileColIndexes::num_cols: the number of slots that hold a column.
num_cols(names) == Cardinality({s \in DOMAIN names : names[s] # "NONE"})

\* The arrays of a Profile, with the two locals of parse_values.
ProfileArrays ==
    {"pressure", "temperature", "wet_bulb", "dew_point", "theta_e", "wind", "omega",
     "height", "cloud_fraction"}

ArrayOf(col) ==
    CASE col = "PRES" -> "pressure" [] col = "TMPC" -> "temperature"
      [] col = "TMWC" -> "wet_bulb" [] col = "DWPC" -> "dew_point"
      [] col = "THTE" -> "theta_e" [] col = "DRCT" -> "direction"
      [] col = "SKNT" -> "speed" [] col = "OMEG" -> "omega"
      [] col = "CFRL" -> "cloud_fraction" [] col = "HGHT" -> "height"

\* The loop of parse_values with the values after the first row all pushed
\* to the last column.
RECURSIVE PushValues_NoWrap(_, _, _, _)
PushValues_NoWrap(values, names, i, acc) ==
    IF i >= Len(values) THEN [kind |-> "Ok", acc |-> acc]
    ELSE LET f == f64_from_str(values[i + 1])
             n == num_cols(names)
             c == IF i < n THEN i ELSE n - 1
         IN  IF ~f.ok THEN [kind |-> "Err"]
             ELSE IF n = 0 THEN [kind |-> "Panic"]
             ELSE IF names[c + 1] = "NONE" THEN [kind |-> "Err"]
             ELSE PushValues_NoWrap(values, names, i + 1,
                                    [acc EXCEPT ![ArrayOf(names[c + 1])] =
                                        Append(acc[ArrayOf(names[c + 1])],
                                               check_missing(f.val))])

\* The loop of parse_values over the body values from the 0-based index i.
RECURSIVE PushValues(_, _, _, _)
PushValues(values, names, i, acc) ==
    IF i >= Len(values) THEN [kind |-> "Ok", acc |-> acc]
    ELSE LET f == f64_from_str(values[i + 1])
             n == num_cols(names)
         IN  IF ~f.ok THEN [kind |-> "Err"]
             ELSE IF n = 0 THEN [kind |-> "Panic"]
             ELSE IF names[(i % n) + 1] = "NONE" THEN [kind |-> "Err"]
             ELSE PushValues(values, names, i + 1,
                             [acc EXCEPT ![ArrayOf(names[(i % n) + 1])] =
                                 Append(@, check_missing(f.val))])

\* direction.zip(speed) with an entry present whenever its direction is.
Zip_DirectionAlone(direction, speed) ==
    [k \in 1..(IF Len(direction) < Len(speed) THEN Len(direction) ELSE Len(speed)) |->
        IF direction[k].some
        THEN [some |-> TRUE,
              val |-> <<direction[k].val, IF speed[k].some THEN speed[k].val ELSE MISSING_F64>>]
        ELSE NoValue]

\* direction.zip(speed): one entry per index both have, present when both are.
Zip(direction, speed) ==
    [k \in 1..(IF Len(direction) < Len(speed) THEN Len(direction) ELSE Len(speed)) |->
        Both(direction[k], speed[k])]

\* Profile::parse_values
Profile_parse_values(values, names) ==
    LET start == [a \in (ProfileArrays \cup {"direction", "speed"}) |-> <<>>]
        r == PushValues(split_whitespace(trim(values)), names, 0, start)
    IN  IF r.kind # "Ok" THEN [kind |-> r.kind]
        ELSE [kind |-> "Ok",
              arrays |-> [a \in ProfileArrays |->
                            IF a = "wind" THEN Zip(r.acc["direction"], r.acc["speed"])
                            ELSE r.acc[a]]]

\* Profile::parse after split_header_and_values, and after get_column_indexes.
ProfileWithColumns(src, header_end, cols) ==
    IF cols.kind # "Ok" THEN [kind |-> cols.kind]
    ELSE Profile_parse_values(Slice(src, header_end, Len(src)), cols.names)

ProfileAt(src, header_end) ==
    IF ~header_end.some THEN [kind |-> "Err"]
    ELSE ProfileWithColumns(src, header_end.val,
                            get_column_indexes(Slice(src, 0, header_end.val)))

\* Profile::parse, with split_header_and_values.  UpperAir::parse moves the
\* arrays of the profile into the record as they are.
Profile_parse(src) == ProfileAt(src, FindValuesStart(src))

\* UpperAir::validate with the check of the pressure array alone.
UpperAir_validate_PressureOnly(arrays) == Len(arrays["pressure"]) # 0

\* UpperAir::validate on the arrays of a record: TRUE for Ok.
UpperAir_validate(arrays) ==
    LET len == Len(arrays["pressure"])
        is_valid_length(l) == l = 0 \/ l = len
    IN  /\ len # 0
        /\ \A a \in ProfileArrays \ {"pressure"} : is_valid_length(Len(arrays[a]))

----------------------------------------------------------------------------
(* Upper air: the texts and the operations of SpecProfile *)

MaxCols == 3        \* tokens in a profile header
MaxVals == 5        \* values in a profile body

\* Header tokens: pressure, temperature, the two wind columns and a token
\* outside the vocabulary.
ProfileTokens == {<<"P", "R", "E", "S">>, <<"T", "M", "P", "C">>, <<"D", "R", "C", "T">>, <<"S", "K", "N", "T">>, <<"X", "X", "X", "X">>}

\* Bodies: k values, all present, or one of them the sentinel or not a number.
ProfileBodies ==
    {[i \in 1..k |-> <<"9", "0", "6", ".", "9">>] : k \in 0..MaxVals}
    \cup UNION {{[[i \in 1..k |-> <<"9", "0", "6", ".", "9">>] EXCEPT ![p] = odd] :
                    p \in 1..k, odd \in {<<"-", "9", "9", "9", "9", ".", "0", "0">>, <<"1", "x">>}} :
                 k \in 1..MaxVals}

ProfileText(header, values) == Join(header) \o <<"\n">> \o Join(values)

\* A header of one column more than the table of ProfileColIndexes has slots.
WideHeader == [i \in 1..(NumColSlots + 1) |-> <<"P", "R", "E", "S">>]

InitProfile ==
    /\ IdleMerge
    /\ IdleSurface
    /\ IdleInit
    /\ IdleCall
    /\ IdleTwins
    /\ profHeader \in SeqsUpTo(ProfileTokens, MaxCols) \cup {WideHeader}
    /\ profValues \in ProfileBodies
    /\ profText = ProfileText(profHeader, profValues)
    /\ profile = [kind |-> "none"]
    /\ uaValid = "none"

\* Profile::parse(upper_air_section), whose arrays become those of the record
\* UpperAir::parse returns.
Profile_parse_call ==
    /\ profile.kind = "none"
    /\ profile' = Profile_parse(profText)
    /\ UNCHANGED <<profHeader, profValues, profText, uaValid>>
    /\ UNCHANGED notProfile

\* UpperAir::validate(&record)
UpperAir_validate_call ==
    /\ profile.kind = "Ok"
    /\ uaValid = "none"
    /\ uaValid' = IF UpperAir_validate(profile.arrays) THEN "Ok" ELSE "Err"
    /\ UNCHANGED <<profHeader, profValues, profText, profile>>
    /\ UNCHANGED notProfile

NextProfile == Profile_parse_call \/ UpperAir_validate_call

SpecProfile == InitProfile /\ [][NextProfile]_vars

----------------------------------------------------------------------------
(* Claims about the upper-air record *)

\* C10: every upper-air record produced from a text has a non-empty pressure
\* array and every other profile array empty or as long as the pressure
\* array, also when the body ends with an incomplete row.
C10_ProducedArraysConsistent ==
    profile.kind = "Ok" =>
        /\ Len(profile.arrays["pressure"]) > 0
        /\ \A a \in ProfileArrays :
              Len(profile.arrays[a]) \in {0, Len(profile.arrays["pressure"])}

\* The eight profile arrays validate compares with the pressure array.
OtherArrays ==
    {"temperature", "wet_bulb", "dew_point", "theta_e", "wind", "omega", "height",
     "cloud_fraction"}

\* C11: UpperAir::validate returns Ok exactly when the pressure array is
\* non-empty and each of the eight other profile arrays has length zero or the
\* length of the pressure array; in every other case it returns an error.
C11_ValidateIffConsistent ==
    uaValid # "none" =>
        /\ uaValid \in {"Ok", "Err"}
        /\ uaValid = "Ok" <=>
               /\ Len(profile.arrays["pressure"]) >= 1
               /\ \A a \in OtherArrays :
                     \/ Len(profile.arrays[a]) = 0
                     \/ Len(profile.arrays[a]) = Len(profile.arrays["pressure"])

\* validate has rejected a record with pressure values and a wind array of
\* another length.
C11_Witness ==
    /\ uaValid = "Err"
    /\ Len(profile.arrays["pressure"]) >= 1
    /\ Len(profile.arrays["wind"]) >= 1
    /\ Len(profile.arrays["wind"]) # Len(profile.arrays["pressure"])

----------------------------------------------------------------------------
(* Text: the key-value scanners of parse_util *)

\* char::is_alphanumeric on the characters of the texts.
Letter ==
    {"A", "B", "C", "D", "E", "F", "G", "H", "I", "J", "K", "L", "M", "N", "O", "P", "Q",
     "R", "S", "T", "U", "V", "W", "X", "Y", "Z", "x"}

is_alphanumeric(c) == c \in Letter \/ c \in Digit

\* The closures parse_f64 and parse_i32 hand to parse_kv.
F64Start(c) == is_digit(c) \/ c = "-"
F64End(c) == ~(is_digit(c) \/ c = "." \/ c = "-")
I32Start(c) == is_digit(c)
I32End(c) == ~is_digit(c)

\* The closures StationInfo::parse hands to parse_kv for STID and for TIME.
StidStart(c) == is_alphanumeric(c)
StidEnd(c) == ~is_alphanumeric(c)
TimeStart(c) == is_digit(c)
TimeEnd(c) == ~(is_digit(c) \/ c = "/")

\* The call of a closure, named by the caller of parse_kv, on a character.
Accepts(closure, c) ==
    CASE closure = "F64Start" -> F64Start(c)
      [] closure = "F64End" -> F64End(c)
      [] closure = "I32Start" -> I32Start(c)
      [] closure = "I32End" -> I32End(c)
      [] closure = "StidStart" -> StidStart(c)
      [] closure = "StidEnd" -> StidEnd(c)
      [] closure = "TimeStart" -> TimeStart(c)
      [] closure = "TimeEnd" -> TimeEnd(c)

\* str::find(closure): the 0-based offset of the first character the closure
\* accepts, or none.
FirstWhere(s, closure) ==
    IF \A i \in DOMAIN s : ~Accepts(closure, s[i]) THEN [some |-> FALSE]
    ELSE [some |-> TRUE, val |-> Min({i \in DOMAIN s : Accepts(closure, s[i])}) - 1]

\* parse_kv from the start of the value: the value runs to the first
\* character end_val accepts, or to the end of the slice.
ValueFrom(head, tail_idx) ==
    [ok |-> TRUE,
     val |-> trim(Slice(head, 0, IF tail_idx.some THEN tail_idx.val ELSE Len(head))),
     head |-> Slice(head, IF tail_idx.some THEN tail_idx.val ELSE Len(head), Len(head))]

\* parse_kv from the key: the value starts at the first character start_val
\* accepts, the characters of the key among them.
ValueAfterKey(head, idx, end_val) ==
    IF ~idx.some THEN [ok |-> FALSE]
    ELSE ValueFrom(Slice(head, idx.val, Len(head)),
                   FirstWhere(Slice(head, idx.val, Len(head)), end_val))

KeyAt(src, idx, start_val, end_val) ==
    IF ~idx.some THEN [ok |-> FALSE]
    ELSE ValueAfterKey(Slice(src, idx.val, Len(src)),
                       FirstWhere(Slice(src, idx.val, Len(src)), start_val), end_val)

\* parse_kv: the value of "KEY = VALUE" and the rest of src, or an error.
parse_kv(src, key, start_val, end_val) ==
    KeyAt(src, str_find(src, key), start_val, end_val)

\* The ? on parse_kv and on from_str, then Ok((val, head)).
NumberOf(kv, n) ==
    IF ~n.ok THEN [ok |-> FALSE] ELSE [ok |-> TRUE, val |-> n.val, head |-> kv.head]

F64Of(kv) == IF ~kv.ok THEN [ok |-> FALSE] ELSE NumberOf(kv, f64_from_str(kv.val))

I32Of(kv) == IF ~kv.ok THEN [ok |-> FALSE] ELSE NumberOf(kv, i32_from_str(kv.val))

\* parse_f64 and parse_i32: the number after a key and the rest of src.
parse_f64(src, key) == F64Of(parse_kv(src, key, "F64Start", "F64End"))

parse_i32(src, key) == I32Of(parse_kv(src, key, "I32Start", "I32End"))

\* parse_f64 as StationInfo::parse and Indexes::parse use it: the value is an
\* Optioned<f64>, the sentinel being none.
OptionedOf(r) ==
    IF ~r.ok THEN r ELSE [ok |-> TRUE, val |-> check_missing(r.val), head |-> r.head]

parse_f64_checked(src, key) == OptionedOf(parse_f64(src, key))

----------------------------------------------------------------------------
(* Scalars: one raw value decoded by a column of a row, by a column of a   *)
(* profile or by a key                                                     *)

\* Raw values as they are written: the sentinel in two spellings, the index
\* sentinel, and values on both sides of 0.5.
ScalarTokens == {<<"-", "9", "9", "9", "9", ".", "0", "0">>, <<"-", "9", "9", "9", "9">>, <<"1", "0", "0", ".", "0", "0">>, <<"0", ".", "4", "0">>, <<"9", "9", "9">>, <<"6", "0", ".", "5">>}

\* The float columns of a surface row that fill a field of their own, and the
\* pairs of columns that fill one field together.
SfcScalarColumns ==
    {"PMSL", "PRES", "LCLD", "MCLD", "HCLD", "T2MS", "TD2M", "SKTC", "STC1", "SNFL", "P01M",
     "C01M", "STC2", "SNRA", "WXTS", "WXTP", "WXTZ", "WXTR", "HLCY", "WSYM"}

SfcPairs == {<<"UWND", "VWND">>, <<"USTM", "VSTM">>}

\* The same for the columns of a profile.
ProfileScalarColumns == {"PRES", "TMPC", "TMWC", "DWPC", "THTE", "OMEG", "CFRL", "HGHT"}

ProfilePairs == {<<"DRCT", "SKNT">>}

\* The float keys of the station information and of the indexes.
FloatKeys ==
    {<<"S", "L", "A", "T">>, <<"S", "L", "O", "N">>, <<"S", "E", "L", "V">>, <<"S", "H", "O", "W">>, <<"L", "I", "F", "T">>, <<"S", "W", "E", "T">>, <<"K", "I", "N", "X">>, <<"L", "C", "L", "P">>, <<"P", "W", "A", "T">>, <<"T", "O", "T", "L">>, <<"C", "A", "P", "E">>,
     <<"L", "C", "L", "T">>, <<"C", "I", "N", "S">>, <<"E", "Q", "L", "V">>, <<"L", "F", "C", "T">>, <<"B", "R", "C", "H">>}

\* The ten-slot table of a profile with the given columns.
ProfileTable(cols) == [i \in 1..NumColSlots |-> IF i <= Len(cols) THEN cols[i] ELSE "NONE"]

ScalarCalls ==
    {[fn |-> "SurfaceData::parse_values", cols |-> <<c>>, tokens |-> <<t>>] :
        c \in SfcScalarColumns, t \in ScalarTokens}
    \cup {[fn |-> "SurfaceData::parse_values", cols |-> p, tokens |-> <<t, u>>] :
             p \in SfcPairs, t \in ScalarTokens, u \in ScalarTokens}
    \cup {[fn |-> "Profile::parse_values", cols |-> <<c>>, tokens |-> <<t>>] :
             c \in ProfileScalarColumns, t \in ScalarTokens}
    \cup {[fn |-> "Profile::parse_values", cols |-> p, tokens |-> <<t, u>>] :
             p \in ProfilePairs, t \in ScalarTokens, u \in ScalarTokens}
    \cup {[fn |-> "parse_f64", key |-> k, tokens |-> <<t>>] :
             k \in FloatKeys, t \in ScalarTokens}

IdleButCall ==
    /\ IdleMerge
    /\ IdleSurface
    /\ IdleInit
    /\ IdleProfile
    /\ IdleTwins

InitScalar ==
    /\ IdleButCall
    /\ call \in ScalarCalls
    /\ result = [kind |-> "pending"]

\* SurfaceData::parse_values(tokens, cols) on a row of one or two columns
SurfaceScalar_call ==
    /\ call.fn = "SurfaceData::parse_values"
    /\ result.kind = "pending"
    /\ result' = [kind |-> "done", value |-> parse_values(Join(call.tokens), call.cols)]
    /\ UNCHANGED call
    /\ UNCHANGED notCall

\* Profile::parse_values(values, cols) on a body of one row
ProfileScalar_call ==
    /\ call.fn = "Profile::parse_values"
    /\ result.kind = "pending"
    /\ result' = [kind |-> "done",
                  value |-> Profile_parse_values(Join(call.tokens), ProfileTable(call.cols))]
    /\ UNCHANGED call
    /\ UNCHANGED notCall

\* parse_f64(src, key) on "KEY = VALUE"
KeyScalar_call ==
    /\ call.fn = "parse_f64"
    /\ result.kind = "pending"
    /\ result' = [kind |-> "done",
                  value |-> parse_f64_checked(call.key \o <<" ", "=", " ">> \o call.tokens[1], call.key)]
    /\ UNCHANGED call
    /\ UNCHANGED notCall

NextScalar == SurfaceScalar_call \/ ProfileScalar_call \/ KeyScalar_call

SpecScalar == InitScalar /\ [][NextScalar]_vars

----------------------------------------------------------------------------
(* Claims about the missing-value sentinel *)

\* The raw value of the k-th token of the call, as a number.
RawValue(k) == f64_from_str(call.tokens[k]).val

IsSentinel(v) == v.m = -9999 /\ v.e = 0

\* The field the call has decoded: the optional value of the column, of the
\* pair of columns or of the key.
DecodedField ==
    CASE call.fn = "SurfaceData::parse_values" /\ Len(call.cols) = 1 ->
             result.value.sd.opt[FieldOf(call.cols[1])]
      [] call.fn = "SurfaceData::parse_values" /\ call.cols = <<"UWND", "VWND">> ->
             result.value.sd.opt["wind"]
      [] call.fn = "SurfaceData::parse_values" /\ call.cols = <<"USTM", "VSTM">> ->
             result.value.sd.opt["storm_motion"]
      [] call.fn = "Profile::parse_values" /\ Len(call.cols) = 1 ->
             result.value.arrays[ArrayOf(call.cols[1])][1]
      [] call.fn = "Profile::parse_values" /\ Len(call.cols) = 2 ->
             result.value.arrays["wind"][1]
      [] call.fn = "parse_f64" -> result.value.val

ScalarDecoded ==
    /\ call.fn \in {"SurfaceData::parse_values", "Profile::parse_values", "parse_f64"}
    /\ result.kind = "done"

\* The sentinel decodes to absent and any other value to itself.
PlainRule(k) ==
    IF IsSentinel(RawValue(k)) THEN ~DecodedField.some
    ELSE DecodedField.some /\ DecodedField.val = RawValue(k)

----------------------------------------------------------------------------
(* Merge: records with the station numbers of several stations *)

MaxPairs == 2       \* chunks in each section of a text with station numbers

\* Station numbers: the station of the file, another station, the sentinel.
UaStationNums == {StationNum, MISSING_I32}
SdStationNums == {StationNum, StationNum + 1}

StationChunks(nums) ==
    {[ok |-> TRUE, time |-> t, num |-> n] : t \in {1, 2}, n \in nums}
    \cup {[ok |-> FALSE, time |-> 0, num |-> 0]}

InitCombine ==
    /\ IdleSurface
    /\ IdleInit
    /\ IdleProfile
    /\ IdleCall
    /\ IdleTwins
    /\ uaChunks \in SeqsUpTo(StationChunks(UaStationNums), MaxPairs)
    /\ sdChunks \in SeqsUpTo(StationChunks(SdStationNums), MaxPairs)
    /\ sdTail = "clean"
    /\ uaPos = 1
    /\ uaAborted = FALSE
    /\ sdPos = 1
    /\ out = <<>>
    /\ lastResult = "init"
    /\ lastPull = "none"
    /\ calls = 0
    /\ validateResult = "none"

SpecCombine == InitCombine /\ [][Next_call]_vars

\* C13: each merged record carries the valid time shared by the matched pair
\* and the station number of the upper-air record, absent when that number is
\* the sentinel -9999; records are paired by valid time only, so a surface
\* record of another station with the same valid time is merged all the same.
C13_StationOfUpperAir ==
    /\ \A k \in DOMAIN out :
          /\ out[k].time = uaChunks[out[k].ua].time
          /\ out[k].time = sdChunks[out[k].sd].time
          /\ IF uaChunks[out[k].ua].num = -9999 THEN ~out[k].station.some
             ELSE /\ out[k].station.some
                  /\ out[k].station.val = uaChunks[out[k].ua].num
    /\ (StreamsStrictlyIncreasing /\ lastResult = "None") =>
          OutTimes = UaTimes \cap SdTimes

\* A surface record of station 727731 has been merged with an upper-air
\* record of station 727730 of the same valid time.
C13_Witness ==
    \E k \in DOMAIN out :
        /\ uaChunks[out[k].ua].num = 727730
        /\ sdChunks[out[k].sd].num = 727731
        /\ out[k].station = [some |-> TRUE, val |-> 727730]

----------------------------------------------------------------------------
(* Surface: several iterators built from one SurfaceSection *)

MaxTwinRows == 2    \* rows in the surface text the iterators share
MaxIterators == 2   \* iterators built from the section

\* The rows of the shared text: one that decodes, one with a token that is
\* no number and one with a short date-time token.
TwinRows ==
    {r \in RowCatalog : r.toks[3] \in {<<"1", "0", "1", "2", ".", "5">>, <<"x">>}}

InitTwins ==
    /\ IdleMerge
    /\ IdleInit
    /\ IdleProfile
    /\ IdleCall
    /\ sfcHeader = <<Tok_STN, Tok_VALIDTIME, <<"P", "M", "S", "L">>>>
    /\ sfcRows \in SeqsUpTo(TwinRows, MaxTwinRows)
    /\ \E tail \in Tails : sfcText = SurfaceText(sfcHeader, sfcRows, tail)
    /\ section = [status |-> "none"]
    /\ remaining = <<>>
    /\ iterState = "none"
    /\ yielded = <<>>
    /\ sfcResult = "init"
    /\ sfcCalls = 0
    /\ iterators = <<>>

\* IntoIterator for &SurfaceSection: the iterator borrows the text and the
\* layout of the section and starts at the start of the text.
into_iter(sec) ==
    [remaining |-> sec.raw_text, columns |-> sec.columns, yielded |-> <<>>,
     state |-> "live", calls |-> 0]

\* (&section).into_iter(), once more
TwinIntoIter_call ==
    /\ section.status = "Ok"
    /\ Len(iterators) < MaxIterators
    /\ iterators' = Append(iterators, into_iter(section))
    /\ UNCHANGED sfcVars
    /\ UNCHANGED notTwins

\* An iterator after a call of next() that returned r.
Advanced(it, r) ==
    [remaining |-> r.remaining,
     columns |-> it.columns,
     yielded |-> IF r.result = "Some" THEN Append(it.yielded, r.sd) ELSE it.yielded,
     state |-> IF r.result = "Panic" THEN "panicked"
               ELSE IF r.result = "None" THEN "ended" ELSE "live",
     calls |-> it.calls + 1]

\* next() on the i-th iterator with a cursor that belongs to the section, so
\* that every iterator is moved.
TwinNext_SharedCursor(i) ==
    /\ iterators[i].state \in {"live", "ended"}
    /\ iterators[i].calls < Len(sfcRows) + 2
    /\ iterators' =
          [j \in DOMAIN iterators |->
              IF j = i
              THEN Advanced(iterators[i],
                            SurfaceIterator_next(iterators[i].remaining, iterators[i].columns))
              ELSE [iterators[j] EXCEPT !.remaining =
                       SurfaceIterator_next(iterators[i].remaining,
                                            iterators[i].columns).remaining]]
    /\ UNCHANGED sfcVars
    /\ UNCHANGED notTwins

\* next() on the i-th iterator: only its own cursor moves.
TwinNext_call(i) ==
    /\ iterators[i].state \in {"live", "ended"}
    /\ iterators[i].calls < Len(sfcRows) + 2
    /\ iterators' =
          [iterators EXCEPT ![i] =
              Advanced(@, SurfaceIterator_next(iterators[i].remaining, iterators[i].columns))]
    /\ UNCHANGED sfcVars
    /\ UNCHANGED notTwins

NextTwins ==
    \/ New_call
    \/ TwinIntoIter_call
    \/ \E i \in DOMAIN iterators : TwinNext_call(i)

SpecTwins == InitTwins /\ [][NextTwins]_vars

\* The records an iterator that starts at rem yields until next() returns
\* None or faults.
RECURSIVE Drained(_, _)
DrainedAfter(r, names) ==
    IF r.result = "Some" THEN <<r.sd>> \o Drained(r.remaining, names) ELSE <<>>

Drained(rem, names) == DrainedAfter(SurfaceIterator_next(rem, names), names)

IsPrefix(s, t) == Len(s) <= Len(t) /\ s = SubSeq(t, 1, Len(s))

----------------------------------------------------------------------------
(* Headers: one header line read as a surface header and as a profile header *)

MaxHeaderToks == 3  \* tokens in the header line

\* Tokens of the header line: the two required surface tags, one tag of
\* both vocabularies, one of the profile vocabulary alone, one of the surface
\* vocabulary alone and one of neither.
HeaderLineTokens == {Tok_STN, Tok_VALIDTIME, <<"P", "R", "E", "S">>, <<"T", "M", "P", "C">>, <<"T", "2", "M", "S">>, <<"E", "V", "A", "P">>}

\* The profile text under a header: one value for each header token.
ProfileUnder(header) == ProfileText(header, [i \in DOMAIN header |-> <<"9", "0", "6", ".", "9">>])

InitHeader ==
    /\ IdleButCall
    /\ call \in {[fn |-> "header", header |-> h] : h \in SeqsUpTo(HeaderLineTokens, MaxHeaderToks)}
    /\ result = [sfc |-> [kind |-> "pending"], prof |-> [kind |-> "pending"]]

\* SurfaceData::parse_columns(header)
parse_columns_call ==
    /\ call.fn = "header"
    /\ result.sfc.kind = "pending"
    /\ result' = [result EXCEPT !.sfc = [kind |-> "done", value |-> parse_columns(Join(call.header))]]
    /\ UNCHANGED call
    /\ UNCHANGED notCall

\* Profile::parse(text) on the header followed by a row of values
Profile_parse_header_call ==
    /\ call.fn = "header"
    /\ result.prof.kind = "pending"
    /\ result' = [result EXCEPT !.prof = [kind |-> "done",
                                          value |-> Profile_parse(ProfileUnder(call.header))]]
    /\ UNCHANGED call
    /\ UNCHANGED notCall

NextHeader == parse_columns_call \/ Profile_parse_header_call

SpecHeader == InitHeader /\ [][NextHeader]_vars

\* The tokens of the header line that each decoder recognises.
SfcRecognised == {Tok_STN, Tok_VALIDTIME, <<"P", "R", "E", "S">>, <<"T", "2", "M", "S">>}
ProfileRecognised == {<<"P", "R", "E", "S">>, <<"T", "M", "P", "C">>}

\* C15: a surface layout has one tag for each header token, in header
\* order, and the tag of an unrecognised token is the ignore placeholder; a
\* profile whose header holds a token outside its vocabulary fails to decode.
C15_UnrecognisedHeaderTokens ==
    /\ (result.sfc.kind = "done" /\ result.sfc.value.ok) =>
          /\ Len(result.sfc.value.names) = Len(call.header)
          /\ \A i \in DOMAIN call.header :
                (result.sfc.value.names[i] = "NONE") <=> (call.header[i] \notin SfcRecognised)
    /\ (result.prof.kind = "done" /\ \E i \in DOMAIN call.header :
                                        call.header[i] \notin ProfileRecognised) =>
          result.prof.value.kind = "Err"

\* The line "STN EVAP YYMMDD/HHMM" read both ways: a surface layout with a
\* placeholder in the second position, and a profile that fails.
C15_Witness ==
    /\ call.fn = "header"
    /\ call.header = <<Tok_STN, <<"E", "V", "A", "P">>, Tok_VALIDTIME>>
    /\ result.sfc.kind = "done"
    /\ result.sfc.value.ok
    /\ result.sfc.value.names = <<"STN", "NONE", "VALIDTIME">>
    /\ result.prof.kind = "done"
    /\ result.prof.value.kind = "Err"

----------------------------------------------------------------------------
(* Upper air: StationInfo::parse *)

NoStation == [kind |-> "Err"]

\* The record with a lead time of 0 when STIM is not found.
StationWithLeadTime_DefaultsToZero(acc, lt) ==
    [kind |-> "Ok", num |-> acc.num, id |-> acc.id, valid_time |-> acc.valid_time,
     lead_time |-> IF lt.ok THEN lt.val ELSE 0, lat |-> acc.lat, lon |-> acc.lon,
     elevation |-> acc.elevation]

\* StationInfo::parse from parse_i32(head, "STIM")? on: the record.
StationWithLeadTime(acc, lt) ==
    IF ~lt.ok THEN NoStation
    ELSE [kind |-> "Ok", num |-> acc.num, id |-> acc.id, valid_time |-> acc.valid_time,
          lead_time |-> lt.val, lat |-> acc.lat, lon |-> acc.lon, elevation |-> acc.elevation]

\* ... from parse_f64(head, "SELV")? on
StationWithElevation(acc, elv) ==
    IF ~elv.ok THEN NoStation
    ELSE StationWithLeadTime([acc EXCEPT !.elevation = elv.val], parse_i32(elv.head, <<"S", "T", "I", "M">>))

\* ... from parse_f64(head, "SLON")? on
StationWithLon(acc, lon) ==
    IF ~lon.ok THEN NoStation
    ELSE StationWithElevation([acc EXCEPT !.lon = lon.val], parse_f64_checked(lon.head, <<"S", "E", "L", "V">>))

\* ... from parse_f64(head, "SLAT")? on
StationWithLat(acc, lat) ==
    IF ~lat.ok THEN NoStation
    ELSE StationWithLon([acc EXCEPT !.lat = lat.val], parse_f64_checked(lat.head, <<"S", "L", "O", "N">>))

\* ... from parse_naive_date_time(val_to_parse)? on
StationWithTime(acc, vt, head) ==
    IF vt.kind # "Ok" THEN [kind |-> vt.kind]
    ELSE StationWithLat([acc EXCEPT !.valid_time = vt.val], parse_f64_checked(head, <<"S", "L", "A", "T">>))

\* ... from parse_kv(head, "TIME", ..)? on
StationWithTimeValue(acc, kv) ==
    IF ~kv.ok THEN NoStation
    ELSE StationWithTime(acc, parse_naive_date_time(kv.val), kv.head)

\* ... from parse_i32(head, "STNM")? on
StationWithNum(id, n) ==
    IF ~n.ok THEN NoStation
    ELSE StationWithTimeValue([num |-> n.val, id |-> id, valid_time |-> <<>>,
                               lat |-> NoValue, lon |-> NoValue, elevation |-> NoValue],
                              parse_kv(n.head, <<"T", "I", "M", "E">>, "TimeStart", "TimeEnd"))

\* The station id: none when the value parse_kv returned is "STNM".
StationId(station_id) ==
    IF station_id = <<"S", "T", "N", "M">> THEN [some |-> FALSE] ELSE [some |-> TRUE, val |-> station_id]

\* ... from parse_kv(src, "STID", ..)? on: head goes back to src when the
\* value is "STNM".
StationWithId(src, kv) ==
    IF ~kv.ok THEN NoStation
    ELSE StationWithNum(StationId(kv.val),
                        parse_i32(IF kv.val = <<"S", "T", "N", "M">> THEN src ELSE kv.head, <<"S", "T", "N", "M">>))

\* StationInfo::parse
StationInfo_parse(src) == StationWithId(src, parse_kv(src, <<"S", "T", "I", "D">>, "StidStart", "StidEnd"))

\* The preambles: each key with a value, for some without one or with the
\* sentinel, or left out.
StidParts == {<<"S", "T", "I", "D", " ", "=", " ", "K", "M", "S", "O", " ">>, <<"S", "T", "I", "D", " ", "=", " ">>}
StnmParts == {<<"S", "T", "N", "M", " ", "=", " ", "7", "2", "7", "7", "3", "0", " ">>, <<>>}
TimeParts == {<<"T", "I", "M", "E", " ", "=", " ", "1", "7", "0", "4", "0", "1", "/", "0", "0", "0", "0", " ">>, <<>>}
SlatParts == {<<"S", "L", "A", "T", " ", "=", " ", "4", "6", ".", "9", "2", " ">>, <<"S", "L", "A", "T", " ", "=", " ", "-", "9", "9", "9", "9", ".", "0", "0", " ">>, <<>>}
SlonParts == {<<"S", "L", "O", "N", " ", "=", " ", "-", "1", "1", "4", ".", "0", "8", " ">>, <<"S", "L", "O", "N", " ", "=", " ", "-", "9", "9", "9", "9", ".", "0", "0", " ">>, <<>>}
SelvParts == {<<"S", "E", "L", "V", " ", "=", " ", "9", "7", "2", ".", "0", " ">>, <<"S", "E", "L", "V", " ", "=", " ", "-", "9", "9", "9", "9", ".", "0", "0", " ">>, <<>>}
StimParts == {<<"S", "T", "I", "M", " ", "=", " ", "8", "4">>, <<>>}

Preambles ==
    {[stid |-> a, stnm |-> b, time |-> c, slat |-> d, slon |-> e, selv |-> f, stim |-> g] :
        a \in StidParts, b \in StnmParts, c \in TimeParts, d \in SlatParts,
        e \in SlonParts, f \in SelvParts, g \in StimParts}

PreambleText(p) == p.stid \o p.stnm \o p.time \o p.slat \o p.slon \o p.selv \o p.stim

InitStation ==
    /\ IdleButCall
    /\ call \in {[fn |-> "StationInfo::parse", parts |-> p, src |-> PreambleText(p)] : p \in Preambles}
    /\ result = [kind |-> "pending"]

\* StationInfo::parse(src)
StationInfo_parse_call ==
    /\ call.fn = "StationInfo::parse"
    /\ result.kind = "pending"
    /\ result' = [kind |-> "done", value |-> StationInfo_parse(call.src)]
    /\ UNCHANGED call
    /\ UNCHANGED notCall

NextStation == StationInfo_parse_call

SpecStation == InitStation /\ [][NextStation]_vars


\* The preamble holds every key with a value, but for the station id.
FullPreamble ==
    /\ call.parts.stnm # <<>>
    /\ call.parts.time # <<>>
    /\ call.parts.slat # <<>>
    /\ call.parts.slon # <<>>
    /\ call.parts.selv # <<>>
    /\ call.parts.stim # <<>>

\* C16: StationInfo::parse on "STID = X STNM = ..." yields the id X, on
\* "STID = STNM = ..." no id, and in both cases the integer after STNM as
\* the station number.
C16_StationIdAndNumber ==
    (result.kind = "done" /\ FullPreamble) =>
        /\ result.value.kind = "Ok"
        /\ result.value.num = 727730
        /\ call.parts.stid = <<"S", "T", "I", "D", " ", "=", " ", "K", "M", "S", "O", " ">> => result.value.id = [some |-> TRUE, val |-> <<"K", "M", "S", "O">>]
        /\ call.parts.stid = <<"S", "T", "I", "D", " ", "=", " ">> => result.value.id = [some |-> FALSE]


\* The value a preamble part gives its field: absent for the sentinel.
PartValue(part, present) ==
    IF part = present THEN [some |-> TRUE, val |-> f64_from_str(trim(Slice(present, 7, Len(present)))).val]
    ELSE NoValue

RequiredPartMissing == call.parts.stnm = <<>> \/ call.parts.time = <<>> \/ call.parts.stim = <<>>

LocationPartMissing == call.parts.slat = <<>> \/ call.parts.slon = <<>> \/ call.parts.selv = <<>>

\* The fields of the record are those of the parts of the preamble.
FieldsAsWritten ==
    /\ result.value.kind = "Ok"
    /\ result.value.num = 727730
    /\ result.value.valid_time = <<2017, 4, 1, 0, 0, 0>>
    /\ result.value.lead_time = 84
    /\ result.value.lat = PartValue(call.parts.slat, <<"S", "L", "A", "T", " ", "=", " ", "4", "6", ".", "9", "2", " ">>)
    /\ result.value.lon = PartValue(call.parts.slon, <<"S", "L", "O", "N", " ", "=", " ", "-", "1", "1", "4", ".", "0", "8", " ">>)
    /\ result.value.elevation = PartValue(call.parts.selv, <<"S", "E", "L", "V", " ", "=", " ", "9", "7", "2", ".", "0", " ">>)

\* C17 as stated: the decode fails when STNM, TIME or STIM is not found, and
\* succeeds otherwise, each of SLAT, SLON, SELV that is missing or holds the
\* sentinel being absent and the others as written.
C17_Original ==
    result.kind = "done" =>
        IF RequiredPartMissing THEN result.value.kind = "Err" ELSE FieldsAsWritten

\* C17: StationInfo::parse fails when one of STNM, TIME, SLAT, SLON, SELV,
\* STIM is not found after the key before it; when all are found, each of
\* latitude, longitude and elevation that holds the sentinel is absent and
\* the other fields are as written.
C17_KeysRequiredSentinelsAbsent ==
    result.kind = "done" =>
        IF RequiredPartMissing \/ LocationPartMissing THEN result.value.kind = "Err"
        ELSE FieldsAsWritten

\* A preamble with the sentinel as latitude: decoded, the latitude absent,
\* the longitude and the elevation present.
C17_Witness ==
    /\ call.fn = "StationInfo::parse"
    /\ result.kind = "done"
    /\ call.parts.slat = <<"S", "L", "A", "T", " ", "=", " ", "-", "9", "9", "9", "9", ".", "0", "0", " ">>
    /\ result.value.kind = "Ok"
    /\ ~result.value.lat.some
    /\ result.value.lon.some
    /\ result.value.elevation.some

----------------------------------------------------------------------------
(* Upper air: Indexes::parse *)

\* The keys in the order Indexes::parse reads them.
IndexKeys ==
    <<<<"S", "H", "O", "W">>, <<"L", "I", "F", "T">>, <<"S", "W", "E", "T">>, <<"K", "I", "N", "X">>, <<"L", "C", "L", "P">>, <<"P", "W", "A", "T">>, <<"T", "O", "T", "L">>, <<"C", "A", "P", "E">>, <<"L", "C", "L", "T">>, <<"C", "I", "N", "S">>,
      <<"E", "Q", "L", "V">>, <<"L", "F", "C", "T">>, <<"B", "R", "C", "H">>>>

\* The readings from the i-th key on; a reading that fails leaves none() and
\* the cursor where it was.
RECURSIVE ScanIndexes(_, _, _)
ScanIndex(head, i, acc, r) ==
    IF r.ok THEN ScanIndexes(r.head, i + 1, Append(acc, r.val))
    ELSE ScanIndexes(head, i + 1, Append(acc, NoValue))

ScanIndexes(head, i, acc) ==
    IF i > Len(IndexKeys) THEN acc
    ELSE ScanIndex(head, i, acc, parse_f64_checked(head, IndexKeys[i]))

\* Indexes::parse: the thirteen indexes in the order of the keys.
Indexes_parse(src) == [kind |-> "Ok", values |-> ScanIndexes(src, 1, <<>>)]

MaxOdd == 2         \* keys of a text that do not hold a plain value

\* The keys that may be odd, and the ways of being odd: the sentinel, the key
\* left out, a value that is no number and no value at all.
OddKeys == {1, 2, 7, 13}
OddKinds == {"sentinel", "missing", "malformed", "empty"}

\* The value written for the i-th key: i.5
IndexValue(i) ==
    (IF i >= 10 THEN <<"1">> ELSE <<>>) \o <<CHOOSE c \in Digit : DigitValue(c) = i % 10>> \o <<".", "5">>

IndexPart(i, kind) ==
    CASE kind = "value" -> IndexKeys[i] \o <<" ", "=", " ">> \o IndexValue(i) \o <<" ">>
      [] kind = "sentinel" -> IndexKeys[i] \o <<" ", "=", " ", "-", "9", "9", "9", "9", ".", "0", "0", " ">>
      [] kind = "missing" -> <<>>
      [] kind = "malformed" -> IndexKeys[i] \o <<" ", "=", " ", "8", ".", "1", ".", "2", " ">>
      [] kind = "empty" -> IndexKeys[i] \o <<" ", "=", " ">>

IndexLayouts ==
    UNION {{[i \in DOMAIN IndexKeys |-> IF i \in odd THEN kinds[i] ELSE "value"] :
               kinds \in [odd -> OddKinds]} :
           odd \in {o \in SUBSET OddKeys : Cardinality(o) <= MaxOdd}}

IndexText(k) == Concat([i \in DOMAIN IndexKeys |-> IndexPart(i, k[i])])

InitIndexes ==
    /\ IdleButCall
    /\ call \in {[fn |-> "Indexes::parse", kinds |-> k, src |-> IndexText(k)] : k \in IndexLayouts}
    /\ result = [kind |-> "pending"]

\* Indexes::parse(src)
Indexes_parse_call ==
    /\ call.fn = "Indexes::parse"
    /\ result.kind = "pending"
    /\ result' = [kind |-> "done", value |-> Indexes_parse(call.src)]
    /\ UNCHANGED call
    /\ UNCHANGED notCall

NextIndexes == Indexes_parse_call

SpecIndexes == InitIndexes /\ [][NextIndexes]_vars

\* C18: Indexes::parse returns Ok for every text; a key that is missing,
\* holds the sentinel or holds no number yields an absent index, and every
\* other key its value.
C18_OddKeysAbsentOthersDecoded ==
    result.kind = "done" =>
        /\ result.value.kind = "Ok"
        /\ \A i \in DOMAIN IndexKeys :
              result.value.values[i] =
                  IF call.kinds[i] = "value"
                  THEN [some |-> TRUE, val |-> f64_from_str(IndexValue(i)).val]
                  ELSE NoValue

----------------------------------------------------------------------------
(* Text: parse_naive_date_time on one token *)

\* The parts a token is put together from, with the fields a part of the
\* right shape stands for.
DateParts ==
    {[text |-> <<"1", "7", "0", "4", "0", "1">>, shaped |-> TRUE, date |-> <<2017, 4, 1>>],
     [text |-> <<"1", "6", "0", "2", "2", "9">>, shaped |-> TRUE, date |-> <<2016, 2, 29>>],
     [text |-> <<"1", "7", "0", "2", "2", "9">>, shaped |-> TRUE, date |-> <<2017, 2, 29>>],
     [text |-> <<"1", "7", "1", "3", "0", "1">>, shaped |-> TRUE, date |-> <<2017, 13, 1>>],
     [text |-> <<"1", "7", "0", "4", "3", "1">>, shaped |-> TRUE, date |-> <<2017, 4, 31>>],
     [text |-> <<"1", "7", "x", "4", "0", "1">>, shaped |-> FALSE, date |-> <<>>],
     [text |-> <<"1", "7", "0", "4">>, shaped |-> FALSE, date |-> <<>>]}

Separators == {<<"/">>, <<"-">>, <<>>}

ClockParts ==
    {[text |-> <<"0", "0", "0", "0">>, shaped |-> TRUE, clock |-> <<0, 0>>],
     [text |-> <<"2", "3", "5", "9">>, shaped |-> TRUE, clock |-> <<23, 59>>],
     [text |-> <<"2", "4", "0", "0">>, shaped |-> TRUE, clock |-> <<24, 0>>],
     [text |-> <<"0", "0", "6", "0">>, shaped |-> TRUE, clock |-> <<0, 60>>],
     [text |-> <<"0", "0", "x", "0">>, shaped |-> FALSE, clock |-> <<>>],
     [text |-> <<"1", "2">>, shaped |-> FALSE, clock |-> <<>>]}

Paddings == {<<>>, <<" ">>}
Trailers == {<<>>, <<"5">>}

DateTimeCalls ==
    {[fn |-> "parse_naive_date_time", date |-> d, sep |-> p, clock |-> c, extra |-> x,
      src |-> l \o d.text \o p \o c.text \o x \o r] :
        d \in DateParts, p \in Separators, c \in ClockParts, x \in Trailers,
        l \in Paddings, r \in Paddings}

InitDateTime ==
    /\ IdleButCall
    /\ call \in DateTimeCalls
    /\ result = [kind |-> "pending"]

\* parse_naive_date_time(src)
parse_naive_date_time_call ==
    /\ call.fn = "parse_naive_date_time"
    /\ result.kind = "pending"
    /\ result' = [kind |-> "done", value |-> parse_naive_date_time(call.src)]
    /\ UNCHANGED call
    /\ UNCHANGED notCall

NextDateTime == parse_naive_date_time_call

SpecDateTime == InitDateTime /\ [][NextDateTime]_vars

\* The token has the shape YYMMDD/HHMM, and its fields name a date and a
\* time of day.
ShapedToken ==
    /\ call.date.shaped
    /\ call.sep = <<"/">>
    /\ call.clock.shaped
    /\ call.extra = <<>>

FieldsInRange ==
    /\ call.date.date[2] \in 1..12
    /\ call.date.date[3] \in 1..DaysInMonth(call.date.date[1], call.date.date[2])
    /\ call.clock.clock[1] \in 0..23
    /\ call.clock.clock[2] \in 0..59

\* C19: parse_naive_date_time returns the date-time of a token of the shape
\* YYMMDD/HHMM, with zero seconds, and an error value for every other token.
C19_DateTimeOrError ==
    result.kind = "done" =>
        IF ShapedToken /\ FieldsInRange
        THEN result.value = [kind |-> "Ok", val |-> call.date.date \o call.clock.clock \o <<0>>]
        ELSE result.value.kind = "Err"

----------------------------------------------------------------------------
(* Surface: SurfaceData::parse_values on one row *)

\* The tokens of a row, each with what a token of its type stands for.
StationTokens ==
    {[text |-> <<"7", "2", "7", "7", "3", "0">>, good |-> TRUE, val |-> 727730],
     [text |-> <<"7", "2", "x">>, good |-> FALSE, val |-> 0]}

ValidTimeTokens ==
    {[text |-> <<"1", "7", "0", "4", "0", "1", "/", "0", "3", "0", "0">>, good |-> TRUE, val |-> <<2017, 4, 1, 3, 0, 0>>],
     [text |-> <<"1", "7", "x", "4", "0", "1", "/", "0", "3", "0", "0">>, good |-> FALSE, val |-> <<>>],
     [text |-> <<"1", "7", "0", "4", "0", "1", "-", "0", "3", "0", "0">>, good |-> FALSE, val |-> <<>>],
     [text |-> <<"1", "7", "0", "4">>, good |-> FALSE, val |-> <<>>]}

FloatTokens ==
    {[text |-> <<"1", "0", "1", "2", ".", "5">>, good |-> TRUE],
     [text |-> <<"-", "9", "9", "9", "9", ".", "0", "0">>, good |-> TRUE],
     [text |-> <<"9", "9", "9">>, good |-> TRUE],
     [text |-> <<"1", "x">>, good |-> FALSE]}

\* The third column of the layout: a float column, a cloud column, the
\* weather symbol and an ignored placeholder.
ThirdColumns == {"PMSL", "LCLD", "WSYM", "NONE"}

\* The number of tokens the chunk holds: all of the row, or one fewer.
RowLengths == {2, 3}

RowCalls ==
    {[fn |-> "parse_values", cols |-> <<"STN", "VALIDTIME", c>>, stn |-> n, time |-> t,
      third |-> f, len |-> l,
      text |-> Join(SubSeq(<<n.text, t.text, f.text>>, 1, l))] :
        c \in ThirdColumns, n \in StationTokens, t \in ValidTimeTokens, f \in FloatTokens,
        l \in RowLengths}

InitRow ==
    /\ IdleButCall
    /\ call \in RowCalls
    /\ result = [kind |-> "pending"]

\* SurfaceData::parse_values(text, cols)
parse_values_call ==
    /\ call.fn = "parse_values"
    /\ result.kind = "pending"
    /\ result' = [kind |-> "done", value |-> parse_values(call.text, call.cols)]
    /\ UNCHANGED call
    /\ UNCHANGED notCall

NextRow == parse_values_call

SpecRow == InitRow /\ [][NextRow]_vars

\* A token of the chunk is not of the type of its column, or the chunk holds
\* fewer tokens than the layout has columns.
RowMustFail ==
    \/ ~call.stn.good
    \/ ~call.time.good
    \/ call.len < Len(call.cols)
    \/ ~call.third.good

\* C20: parse_values fails the row when a token is not of the type of its
\* column or the chunk is short of tokens, and otherwise returns a record
\* with the station number and the valid time of the row.
C20_RowFailsOrDecodes ==
    result.kind = "done" =>
        IF RowMustFail THEN result.value.kind = "Err"
        ELSE /\ result.value.kind = "Ok"
             /\ result.value.sd.station_num = call.stn.val
             /\ result.value.sd.valid_time = call.time.val

----------------------------------------------------------------------------
(* Claim C21 (SpecMerge): streams in any order *)

\* Each stream is ordered by valid time, equal times allowed.
StreamsNonDecreasing ==
    /\ \A i, j \in UaYield : i < j => uaChunks[i].time <= uaChunks[j].time
    /\ \A i, j \in SdYield : i < j => sdChunks[i].time <= sdChunks[j].time

\* Every emitted record pairs an upper-air and a surface record of one valid
\* time, and the records of either stream are used in stream order, each in
\* one pair at most.
OutPairsMatch ==
    /\ \A k \in DOMAIN out :
          /\ out[k].ua \in UaYield
          /\ out[k].sd \in SdYield
          /\ uaChunks[out[k].ua].time = sdChunks[out[k].sd].time
    /\ \A k \in 1..(Len(out) - 1) :
          /\ out[k].ua < out[k + 1].ua
          /\ out[k].sd < out[k + 1].sd

\* C21 as stated: whatever the order of the valid times in the two streams,
\* once the merge has ended every valid time found in both streams has been
\* emitted, and every emitted record is a pair of one valid time.
C21_Original ==
    /\ OutPairsMatch
    /\ lastResult = "None" => OutTimes = UaTimes \cap SdTimes

\* C21: every emitted record is a pair of one valid time, no call reports an
\* error, and when each stream is ordered by valid time (equal times allowed)
\* every valid time found in both streams has been emitted once the merge has
\* ended; a stream that goes back in time can lose a match.
C21_MatchesOfOrderedStreams ==
    /\ OutPairsMatch
    /\ lastResult \in {"init", "Some", "None"}
    /\ (StreamsNonDecreasing /\ lastResult = "None") => OutTimes = UaTimes \cap SdTimes

\* Ordered streams with a repeated valid time and records without a match:
\* the merge has ended and both common valid times were emitted.
C21_Witness ==
    /\ StreamsNonDecreasing
    /\ ~StreamsStrictlyIncreasing
    /\ lastResult = "None"
    /\ UaTimes # SdTimes
    /\ Cardinality(OutTimes) = 2
    /\ OutTimes = UaTimes \cap SdTimes

----------------------------------------------------------------------------
(* Text: find_next_n_tokens on one text *)

MaxToks == 3        \* tokens in the text
MaxN == 3           \* tokens asked for

\* Tokens of one character, of two and of more.
PlainTokens == {<<"5">>, <<"1", "2">>, <<"-", "9", ".", "5">>}

\* The tokens of a text, each followed by a blank, but for the last.
RECURSIVE Spaced(_)
Spaced(toks) ==
    IF toks = <<>> THEN <<>>
    ELSE IF Len(toks) = 1 THEN Head(toks)
    ELSE Head(toks) \o <<" ">> \o Spaced(Tail(toks))

TokenTexts ==
    {[toks |-> t, text |-> lead \o Spaced(t) \o trail] :
        t \in SeqsUpTo(PlainTokens, MaxToks), lead \in {<<>>, <<" ">>},
        trail \in {<<>>, <<"\n">>}}

InitTokens ==
    /\ IdleButCall
    /\ call \in {[fn |-> "find_next_n_tokens", toks |-> t.toks, src |-> t.text, n |-> n] :
                    t \in TokenTexts, n \in 1..MaxN}
    /\ result = [kind |-> "pending"]

\* find_next_n_tokens(src, n)
find_next_n_tokens_call ==
    /\ call.fn = "find_next_n_tokens"
    /\ result.kind = "pending"
    /\ result' = [kind |-> "done", value |-> find_next_n_tokens(call.src, call.n)]
    /\ UNCHANGED call
    /\ UNCHANGED notCall

NextTokens == find_next_n_tokens_call

SpecTokens == InitTokens /\ [][NextTokens]_vars

\* The 0-based offset just after the n-th token of the text.
RECURSIVE EndOfToken(_, _)
EndOfToken(src, n) ==
    Len(src) - Len(trim_start(src)) + TokenLength(trim_start(src))
    + (IF n = 1 THEN 0
       ELSE EndOfToken(SubSeq(trim_start(src), TokenLength(trim_start(src)) + 1,
                              Len(trim_start(src))), n - 1))

\* C22: for a text of at least n tokens find_next_n_tokens returns the offset
\* just after the n-th token, and the text before that offset holds n tokens.
C22_OffsetAfterNthToken ==
    (result.kind = "done" /\ Len(call.toks) >= call.n) =>
        /\ result.value.kind = "Some"
        /\ result.value.brk = EndOfToken(call.src, call.n)
        /\ split_whitespace(Slice(call.src, 0, result.value.brk))
               = SubSeq(call.toks, 1, call.n)

\* C23: find_next_n_tokens returns Ok(None) exactly for a text without a
\* token, and Err for a text with some tokens but fewer than n.
C23_NoneOrTokenCountError ==
    result.kind = "done" =>
        /\ result.value.kind = "None" <=> call.toks = <<>>
        /\ (0 < Len(call.toks) /\ Len(call.toks) < call.n) => result.value.kind = "Err"

----------------------------------------------------------------------------
(* Surface: a text cut into chunks by repeated get_next_chunk *)

InitChunks ==
    /\ IdleButCall
    /\ call \in {[fn |-> "get_next_chunk", toks |-> t.toks, src |-> t.text, n |-> n] :
                    t \in TokenTexts, n \in 1..MaxN}
    /\ result = [kind |-> "chunks", chunks |-> <<>>, remaining |-> call.src, last |-> "init"]

\* The iterator after get_next_chunk returned c.
AfterChunk(res, c) ==
    [kind |-> "chunks",
     chunks |-> IF c.kind = "Some" THEN Append(res.chunks, c.chunk) ELSE res.chunks,
     remaining |-> c.remaining,
     last |-> c.kind]

\* One turn of the loop of SurfaceIterator::next: get_next_chunk() on the
\* remaining text; the loop is left on Ok(None) and on Err.
get_next_chunk_call ==
    /\ call.fn = "get_next_chunk"
    /\ result.last \in {"init", "Some"}
    /\ result' = AfterChunk(result, ChunkAt(result.remaining,
                                            find_next_n_tokens(result.remaining, call.n)))
    /\ UNCHANGED call
    /\ UNCHANGED notCall

NextChunks == get_next_chunk_call

SpecChunks == InitChunks /\ [][NextChunks]_vars

\* C24: at every step the chunks cut so far, concatenated in order, followed
\* by the remaining text are the text the iterator started with.
C24_ChunksReconstructText ==
    call.fn = "get_next_chunk" => Concat(result.chunks) \o result.remaining = call.src

\* Three chunks of one token each were cut from a text with leading white
\* space, and the end of the text was reached.
C24_Witness ==
    /\ call.fn = "get_next_chunk"
    /\ Len(result.chunks) = 3
    /\ result.last = "None"
    /\ Head(call.src) = " "

\* C28: every turn of the loop that gets a chunk gets a non-empty one and
\* leaves a strictly shorter remaining text, so the loop is left after at most
\* as many turns as the text has characters.
C28_Turn ==
    result'.last = "Some" =>
        /\ Len(result'.chunks[Len(result'.chunks)]) > 0
        /\ Len(result'.remaining) < Len(result.remaining)

C28_RemainingShrinks == [][C28_Turn]_vars

\* The loop was left after two chunks of a text with a layout of two columns.
C28_Witness ==
    /\ call.fn = "get_next_chunk"
    /\ call.n = 2
    /\ Len(result.chunks) >= 1
    /\ result.last \in {"None", "Err"}
    /\ Len(result.remaining) < Len(call.src)

----------------------------------------------------------------------------
(* Text: find_blank_line on one text *)

\* The loop of find_blank_line with the flag kept over a letter or digit.
RECURSIVE ScanBlank_KeepsFlag(_, _, _)
ScanBlank_KeepsFlag(src, i, first_newline) ==
    IF i >= Len(src) THEN [some |-> FALSE]
    ELSE IF src[i + 1] = "\n" /\ ~first_newline THEN ScanBlank_KeepsFlag(src, i + 1, TRUE)
    ELSE IF is_alphanumeric(src[i + 1]) THEN ScanBlank_KeepsFlag(src, i + 1, first_newline)
    ELSE IF src[i + 1] = "\n" /\ first_newline
         THEN (IF i + 1 < Len(src) THEN [some |-> TRUE, val |-> i + 1] ELSE [some |-> FALSE])
    ELSE ScanBlank_KeepsFlag(src, i + 1, first_newline)

\* The loop of find_blank_line from the character at 0-based offset i:
\* iter.next()? ends it with None, and so does a second newline that nothing
\* follows (iter.peek() is None).
RECURSIVE ScanBlank(_, _, _)
ScanBlank(src, i, first_newline) ==
    IF i >= Len(src) THEN [some |-> FALSE]
    ELSE IF src[i + 1] = "\n" /\ ~first_newline THEN ScanBlank(src, i + 1, TRUE)
    ELSE IF is_alphanumeric(src[i + 1]) THEN ScanBlank(src, i + 1, FALSE)
    ELSE IF src[i + 1] = "\n" /\ first_newline
         THEN (IF i + 1 < Len(src) THEN [some |-> TRUE, val |-> i + 1] ELSE [some |-> FALSE])
    ELSE ScanBlank(src, i + 1, first_newline)

\* find_blank_line
find_blank_line(src) == ScanBlank(src, 0, FALSE)

MaxLineChars == 5   \* characters in the text

\* A letter, a digit, a blank and the newline.
LineChars == {"x", "5", " ", "\n"}

InitBlank ==
    /\ IdleButCall
    /\ call \in {[fn |-> "find_blank_line", src |-> t] : t \in SeqsUpTo(LineChars, MaxLineChars)}
    /\ result = [kind |-> "pending"]

\* find_blank_line(src)
find_blank_line_call ==
    /\ call.fn = "find_blank_line"
    /\ result.kind = "pending"
    /\ result' = [kind |-> "done", value |-> find_blank_line(call.src)]
    /\ UNCHANGED call
    /\ UNCHANGED notCall

NextBlank == find_blank_line_call

SpecBlank == InitBlank /\ [][NextBlank]_vars

\* The offsets just after a newline that follows a newline with no letter
\* or digit between the two.
BlankLineEnds ==
    {j \in DOMAIN call.src :
        /\ call.src[j] = "\n"
        /\ \E i \in 1..(j - 1) :
              /\ call.src[i] = "\n"
              /\ \A k \in (i + 1)..(j - 1) : ~is_alphanumeric(call.src[k])}

----------------------------------------------------------------------------
(* Claims C26, C27, C29 (SpecProfile) *)

\* The array, or the local of parse_values, that the k-th body value
\* (counting from 0) belongs to under the header of the block.
ArrayOfValue(k) == ArrayOf(ColName(profHeader[(k % Len(profHeader)) + 1]))

\* The body values of the array a, decoded, in the order of the body.
ValuesFor(a) ==
    [j \in DOMAIN SelectSeq([k \in DOMAIN profValues |-> k],
                            LAMBDA k : ArrayOfValue(k - 1) = a) |->
        check_missing(f64_from_str(
            profValues[SelectSeq([k \in DOMAIN profValues |-> k],
                                 LAMBDA k : ArrayOfValue(k - 1) = a)[j]]).val)]

\* No column tag is written twice in the header.
HeaderWithoutRepeat ==
    \A i, j \in DOMAIN profHeader : profHeader[i] = profHeader[j] => i = j

C27_WindFromDirectionAndSpeed ==
    profile.kind = "Ok" =>
        /\ DOMAIN profile.arrays["wind"] =
               DOMAIN ValuesFor("direction") \cap DOMAIN ValuesFor("speed")
        /\ \A i \in DOMAIN profile.arrays["wind"] :
               /\ profile.arrays["wind"][i].some <=>
                      (ValuesFor("direction")[i].some /\ ValuesFor("speed")[i].some)
               /\ profile.arrays["wind"][i].some =>
                      profile.arrays["wind"][i].val =
                          <<ValuesFor("direction")[i].val, ValuesFor("speed")[i].val>>

\* Two levels under DRCT SKNT, the speed of one of them the sentinel: one wind
\* present and one absent.
C27_Witness ==
    /\ profile.kind = "Ok"
    /\ profHeader = <<<<"D", "R", "C", "T">>, <<"S", "K", "N", "T">>>>
    /\ Len(profile.arrays["wind"]) = 2
    /\ \E i, j \in 1..2 : /\ profile.arrays["wind"][i].some
                          /\ ~profile.arrays["wind"][j].some
                          /\ ValuesFor("direction")[j].some


\* C29: Profile::parse never ends in a run-time fault: a header of more than
\* ten column tokens, and a text with no column token before its first digit
\* or minus sign, are rejected with an error.
C29_NoRunTimeFault ==
    /\ profile.kind # "Panic"
    /\ (profile.kind # "none" /\ (Len(profHeader) > NumColSlots \/ Len(profHeader) = 0)) =>
           profile.kind = "Err"

----------------------------------------------------------------------------
(* combine: the WxSymbolCode entry of the map of auxiliary values (SpecWx) *)

\* code as u8 on an f64: the fraction is dropped and the result kept within
\* 0..255.
AsU8(d) ==
    LET t == IF d.m >= 0 THEN d.m \div Pow10(d.e) ELSE 0 - ((0 - d.m) \div Pow10(d.e))
    IN  IF t < 0 THEN 0 ELSE IF t > 255 THEN 255 ELSE t

\* Option::or_else
OrElse(opt, alt) == IF opt.some THEN opt ELSE alt

\* flag.and_then(|f| if f { Some(p_type) } else { None })
FlagType(flag, p_type) ==
    IF flag.some /\ flag.val THEN [some |-> TRUE, val |-> p_type] ELSE NoValue

\* The match of derived_wx_code on the symbol code; its last arm returns None
\* from the function.
MatchCode(wx_code) ==
    IF ~wx_code.some THEN [returns |-> TRUE]
    ELSE CASE wx_code.val = 60 -> [returns |-> FALSE, val |-> "LightRain"]
           [] wx_code.val = 66 -> [returns |-> FALSE, val |-> "LightFreezingRain"]
           [] wx_code.val = 70 -> [returns |-> FALSE, val |-> "LightSnow"]
           [] wx_code.val = 79 -> [returns |-> FALSE, val |-> "LightIcePellets"]
           [] OTHER -> [returns |-> TRUE]

\* derived_wx_code: the chain of or_else is applied to the value of the match.
derived_wx_code(wx_code, is_rain, is_snow, is_fzra, is_ip) ==
    IF MatchCode(wx_code).returns THEN NoValue
    ELSE OrElse(OrElse(OrElse(OrElse([some |-> TRUE, val |-> MatchCode(wx_code).val],
                                     FlagType(is_rain, "LightRain")),
                              FlagType(is_snow, "LightSnow")),
                       FlagType(is_fzra, "LightFreezingRain")),
                FlagType(is_ip, "LightIcePellets"))

\* combine_data: the value check_and_add inserts under "WxSymbolCode", none
\* when it inserts nothing.  The entry is kept as the PrecipType it is the
\* number of.
WxSymbolCode(sd) ==
    derived_wx_code(IF sd.wx_sym_cod.some
                    THEN [some |-> TRUE, val |-> AsU8(sd.wx_sym_cod.val)]
                    ELSE NoValue,
                    sd.rain_type, sd.snow_type, sd.fzra_type, sd.ice_pellets_type)

\* Symbol codes of a surface record: none, the four codes of the match, and
\* codes outside it, one with a fraction and one above the range of u8.
WxCodes ==
    {NoValue} \cup
    {[some |-> TRUE, val |-> d] :
        d \in {Decimal(60, 0), Decimal(66, 0), Decimal(70, 0), Decimal(79, 0),
               Decimal(0, 0), Decimal(61, 0), Decimal(605, 1), Decimal(316, 0)}}

WxFlags == {NoValue, [some |-> TRUE, val |-> TRUE], [some |-> TRUE, val |-> FALSE]}

InitWx ==
    /\ IdleButCall
    /\ call \in [fn : {"combine_data"}, wx_sym_cod : WxCodes, rain_type : WxFlags,
                 snow_type : WxFlags, fzra_type : WxFlags, ice_pellets_type : WxFlags]
    /\ result = [kind |-> "pending"]

\* combine_data on a surface record, for the WxSymbolCode entry of the map.
combine_data_call ==
    /\ call.fn = "combine_data"
    /\ result.kind = "pending"
    /\ result' = [kind |-> "done", value |-> WxSymbolCode(call)]
    /\ UNCHANGED call
    /\ UNCHANGED notCall

NextWx == combine_data_call

SpecWx == InitWx /\ [][NextWx]_vars

\* The first of the four flags that is set, in the order rain, snow, freezing
\* rain, ice pellets.
FirstFlagSet ==
    OrElse(OrElse(OrElse(FlagType(call.rain_type, "LightRain"),
                         FlagType(call.snow_type, "LightSnow")),
                  FlagType(call.fzra_type, "LightFreezingRain")),
           FlagType(call.ice_pellets_type, "LightIcePellets"))

\* The symbol code of the record is one of 60, 66, 70 and 79.
CodeRecognised == call.wx_sym_cod.some /\ AsU8(call.wx_sym_cod.val) \in {60, 66, 70, 79}

\* C30: the WxSymbolCode entry is derived from the symbol code when that is 60,
\* 66, 70 or 79, and otherwise from the first flag set of rain, snow, freezing
\* rain and ice pellets; it is absent only when the code is absent or not
\* recognised and no flag is set.
C30_CodeThenFlags ==
    result.kind = "done" =>
        /\ CodeRecognised =>
              result.value = [some |-> TRUE,
                              val |-> CASE AsU8(call.wx_sym_cod.val) = 60 -> "LightRain"
                                        [] AsU8(call.wx_sym_cod.val) = 66 -> "LightFreezingRain"
                                        [] AsU8(call.wx_sym_cod.val) = 70 -> "LightSnow"
                                        [] AsU8(call.wx_sym_cod.val) = 79 -> "LightIcePellets"]
        /\ ~CodeRecognised => result.value = FirstFlagSet

====
